---------------------------- MODULE Spec2Model ----------------------------
(***************************************************************************)
(* StickerPrint backend: the event hub (routes/events.py), the job         *)
(* orchestrator and generation worker (routes/jobs.py,                     *)
(* services/image_generator.py), the archive cache                         *)
(* (services/zip_generator.py, routes/zips.py, routes/images.py) and the   *)
(* prompt queue processor (routes/prompt_generator.py, routes/prompts.py). *)
(*                                                                         *)
(* Every coroutine is cut at its awaits that reach the database or the     *)
(* provider: one action is the code that runs from one such await to the   *)
(* next, together with the database effect of the await that ends it.      *)
(* broadcast_event never suspends (asyncio.Queue() is unbounded, so        *)
(* queue.put returns without yielding) and is part of the step that calls  *)
(* it.                                                                     *)
(***************************************************************************)
EXTENDS Integers, Sequences, FiniteSets, TLC

\* ------------------------------------------------------------------ bounds
MaxSubs == 2
MaxEvents == 3
MaxJobs == 1        \* jobs created
MaxPrompts == 2     \* prompts in one prompts file
MaxSources == 1     \* prompts files uploaded
MaxTasks == 2       \* coroutines in flight at once (background tasks and requests)
ZipMaxPrompts == 1   \* prompts in one prompts file, where archives are followed
MaxGenerated == 2   \* generated prompt files
MaxQueueEvents == 3 \* events published before the last enqueue or remove arrives
MaxSeqEvents == 4   \* the same, where the enqueue requests are sequential
\* events published before the last enqueue of the clocked queue arrives
MaxFifoEvents == 2
\* the last instant of the clock
MaxNow == 2
\* queue entries the database file holds when the application starts
MaxStored == 2
\* success streak at which the throttle model stops counting at the floor
MaxStreak == 6

\* ------------------------------------------------------- program constants
InitialDelay == 500     \* image_generator.py:21   self.delay = 5.0      (1/100 s)
MaxDelay == 12000       \* image_generator.py:22   self.max_delay = 120.0 (1/100 s)
MinDelay == 200         \* image_generator.py:135  floor 2.0              (1/100 s)
MaxRetriesMutFour == 3 + 1
MaxRetries == 3         \* image_generator.py:83   max_retries = 3
StreakLimit == 5        \* image_generator.py:135  success_streak >= 5

\* --------------------------------------------------------------- variables
VARIABLES
    event_subscribers,  \* events.py:9   the module-level list of subscriber queues
    queues,             \* events.py:14  each subscriber's asyncio.Queue
    subPc,              \* where each subscriber's event_generator stands
    delivered,          \* the events each event_generator has yielded
    regAt,              \* how many events had been published when it registered
    published,          \* every broadcast_event call so far, in call order
    now,                \* datetime.utcnow(), in clock ticks
    app_config,         \* database.py:80  the app_config table, key -> value
    prompts_files,      \* database.py:25  the prompts_files table, in id order
    prompts_dir,        \* data/prompts: path -> the prompts of the file at that path
    jobs,               \* database.py:38  the jobs table, in id order
    images,             \* database.py:63  the images table, in id order
    image_files,        \* data/images: path -> the bytes written there
    zip_files,          \* data/zips/<job id>.zip: job id -> archive content
    all_jobs_zip,       \* data/zips/all_jobs.zip: <<>> (no file) or <<content>>
    tasks,              \* the coroutines in flight: background tasks and requests
    zip_inputs,         \* job id -> what its last archive build read (history)
    generated_files,    \* database.py:88  the generated_prompt_files table, in id order
    generated_dir,      \* data/generated_prompts: path -> the prompts of the file
    prompt_queue        \* database.py:99  the prompt_queue table, in id order

hubVars == <<event_subscribers, queues, subPc, delivered, regAt>>
queueVars == <<generated_files, generated_dir, prompt_queue>>
jobVars == <<now, app_config, prompts_files, prompts_dir, jobs, images, image_files,
             zip_files, all_jobs_zip, tasks, zip_inputs, queueVars>>
vars == <<event_subscribers, queues, subPc, delivered, regAt, published,
          now, app_config, prompts_files, prompts_dir, jobs, images, image_files,
          zip_files, all_jobs_zip, tasks, zip_inputs,
          generated_files, generated_dir, prompt_queue>>

Subs == 1..MaxSubs
Tasks == 1..MaxTasks

\* ---------------------------------------------------------------- helpers
RECURSIVE SeqRemoveFirst(_, _)
\* list.remove(x): drops the first element equal to x
SeqRemoveFirst(s, x) ==
    IF s = <<>> THEN <<>>
    ELSE IF Head(s) = x THEN Tail(s)
    ELSE <<Head(s)>> \o SeqRemoveFirst(Tail(s), x)

SeqToSet(s) == {s[k] : k \in 1..Len(s)}

\* -------------------------------------------------------------- event hub
\* broadcast_event's loop: queue.put(event) on every queue of event_subscribers
PutAllMutPrepend(qs, subs, ev) ==
    [s \in Subs |-> IF s \in SeqToSet(subs) THEN <<ev>> \o qs[s] ELSE qs[s]]

PutAll(qs, subs, ev) ==
    [s \in Subs |-> IF s \in SeqToSet(subs) THEN Append(qs[s], ev) ELSE qs[s]]

\* broadcast_event called for each event of evs, in order, within one step
RECURSIVE PutSeq(_, _, _)
PutSeq(qs, subs, evs) ==
    IF evs = <<>> THEN qs
    ELSE PutSeq(PutAll(qs, subs, Head(evs)), subs, Tail(evs))

\* events.py:14  asyncio.Queue(): maxsize 0, a queue without bound
MaxSizeMutOne == 0 + 1

MaxSize == 0

\* asyncio.Queue.full(): never for maxsize <= 0, else qsize() >= maxsize;
\* queue.put suspends while the queue is full
Full(q) == MaxSize > 0 /\ Len(q) >= MaxSize

\* no queue.put of broadcast_event's loop has to wait
NoPutWaits == \A s \in SeqToSet(event_subscribers) : ~Full(queues[s])

Broadcast(evs) ==
    /\ NoPutWaits
    /\ published' = published \o evs
    /\ queues' = PutSeq(queues, event_subscribers, evs)

HubEvents == {[type |-> "job_updated", id |-> 1, status |-> "running"],
              [type |-> "image_created", id |-> 1, status |-> "1/1"]}

\* some producer calls broadcast_event(event_type, data)
Publish(ev) ==
    /\ Len(published) < MaxEvents
    /\ Broadcast(<<ev>>)
    /\ UNCHANGED jobVars
    /\ UNCHANGED <<event_subscribers, subPc, delivered, regAt, zip_inputs, queueVars>>

\* GET /api/events: event_generator runs to its first queue.get()
Subscribe(s) ==
    /\ subPc[s] = "idle"
    /\ queues' = [queues EXCEPT ![s] = <<>>]
    /\ event_subscribers' = Append(event_subscribers, s)
    /\ subPc' = [subPc EXCEPT ![s] = "get"]
    /\ regAt' = [regAt EXCEPT ![s] = Len(published)]
    /\ UNCHANGED jobVars
    /\ UNCHANGED <<delivered, published>>

\* queue.get() returns the oldest queued event and the generator yields it
Yield(s) ==
    /\ subPc[s] = "get"
    /\ queues[s] # <<>>
    /\ delivered' = [delivered EXCEPT ![s] = Append(@, Head(queues[s]))]
    /\ queues' = [queues EXCEPT ![s] = Tail(@)]
    /\ subPc' = [subPc EXCEPT ![s] = "yield"]
    /\ UNCHANGED jobVars
    /\ UNCHANGED <<event_subscribers, regAt, published>>

\* the consumer asks for the next event: back to queue.get()
Resume(s) ==
    /\ subPc[s] = "yield"
    /\ subPc' = [subPc EXCEPT ![s] = "get"]
    /\ UNCHANGED jobVars
    /\ UNCHANGED <<event_subscribers, queues, delivered, regAt, published>>

\* the task is cancelled while the generator awaits queue.get():
\* except asyncio.CancelledError: event_subscribers.remove(queue)
CancelSub(s) ==
    /\ subPc[s] = "get"
    /\ event_subscribers' = SeqRemoveFirst(event_subscribers, s)
    /\ subPc' = [subPc EXCEPT ![s] = "ended"]
    /\ UNCHANGED jobVars
    /\ UNCHANGED <<queues, delivered, regAt, published>>

\* the consumer closes the generator while it is suspended at its yield:
\* GeneratorExit is no CancelledError, the except clause does not run
CloseSub(s) ==
    /\ subPc[s] = "yield"
    /\ subPc' = [subPc EXCEPT ![s] = "ended"]
    /\ UNCHANGED jobVars
    /\ UNCHANGED <<event_subscribers, queues, delivered, regAt, published>>

\* ------------------------------------------------------------ record store
\* NULL columns: 0 for a time, an id or a size, NullSha for a hash
NullSha == <<"null", <<>>>>

\* hashlib.sha256 over a file's bytes: equal digests only for equal content
Sha256(content) == <<"sha256", content>>

\* the size in bytes of an archive: its end record plus one unit per entry
ZipSize(content) == 1 + Len(content)

ApiKeys == {"", "sk-1"}

\* the lines of a prompts file with n non-blank lines
PromptAt(k) == IF k % 2 = 1 THEN "cat" ELSE "dog"
PromptLines(n) == [k \in 1..n |-> PromptAt(k)]

\* image_generator.py:105  str(i).zfill(3): the decimal digits of i, padded
\* with zeros on the left to three
RECURSIVE Digits(_)
Digits(i) == IF i < 10 THEN <<i>> ELSE Digits(i \div 10) \o <<i % 10>>

RECURSIVE PadLeft(_, _)
PadLeft(ds, w) == IF Len(ds) >= w THEN ds ELSE PadLeft(<<0>> \o ds, w)

Zfill3(i) == PadLeft(Digits(i), 3)

\* image_generator.py:103-104: the prompts of the model are lower-case words,
\* which the sanitizer returns as they are
Sanitized(prompt) == prompt

\* image_generator.py:105-106  output_dir / f'{str(i).zfill(3)}-{sanitized}.png'
ImagePath(job_id, i, prompt) ==
    [dir |-> job_id, prefix |-> Zfill3(i), slug |-> Sanitized(prompt)]

\* Path(image.path).name
PathName(path) == [prefix |-> path.prefix, slug |-> path.slug]

JobById(id) == jobs[id]
JobExists(id) == id \in 1..Len(jobs)

ImagesOf(job_id) == SelectSeq(images, LAMBDA im : im.job_id = job_id)

HasKey(cfg, key) == key \in DOMAIN cfg

\* ----------------------------------------------------------------- tasks
\* no sleep: the interval a wait lies in, in hundredths of a second
NoWait == [lo |-> 0, hi |-> 0]

\* ok_run is history: the successful provider calls of this worker since its
\* last failed call of any kind or its last reduction of the delay
IdleTask ==
    [op |-> "none", pc |-> "idle", job |-> 0, prompts |-> <<>>, base_prompt |-> "",
     api_key |-> "", i |-> 0, retry_count |-> 0, delay |-> 0, success_streak |-> 0,
     seen |-> "", zip_path |-> 0, at |-> 0, read |-> <<>>, param |-> 0,
     queue_item |-> <<>>, generated_file |-> <<>>, prompts_file |-> <<>>,
     wait |-> NoWait, ok_run |-> 0, response |-> ""]

IsFree(t) == tasks[t].pc = "idle"
HasFree == \E t \in Tasks : IsFree(t)
FreeSlot == CHOOSE t \in Tasks : IsFree(t) /\ \A u \in Tasks : IsFree(u) => t <= u

\* the coroutine of slot t returns (or raises): what it answers, or how a
\* background task ended
Finish(t, code) ==
    tasks' = [tasks EXCEPT ![t] =
        [IdleTask EXCEPT !.op = tasks[t].op, !.job = tasks[t].job,
                         !.param = tasks[t].param, !.pc = "done",
                         !.response = code]]

\* ------------------------------------------------- routes/prompts.py, config
\* POST /api/prompts/upload with a .txt file of n >= 1 prompts (prompts.py:13-67)
\* queue_id is history, not a column: the queue entry a record was promoted
\* from, 0 for an upload
upload_prompts_file(filename, n) ==
    /\ Len(prompts_files) < MaxSources
    /\ LET path == [timestamp |-> now, filename |-> filename] IN
       /\ prompts_dir' = [p \in DOMAIN prompts_dir \cup {path} |->
                              IF p = path THEN PromptLines(n) ELSE prompts_dir[p]]
       /\ prompts_files' = Append(prompts_files,
              [id |-> Len(prompts_files) + 1, filename |-> filename,
               sha256 |-> Sha256(PromptLines(n)), path |-> path,
               status |-> "pending", queue_id |-> 0])
    /\ UNCHANGED <<now, app_config, jobs, images, image_files, zip_files,
                   all_jobs_zip, tasks>>
    /\ UNCHANGED <<hubVars, published, zip_inputs, queueVars>>

\* PUT /api/config with api_key (config.py:71-88, 128)
update_config(api_key) ==
    /\ app_config["api_key"] # api_key
    /\ app_config' = [app_config EXCEPT !["api_key"] = api_key]
    /\ UNCHANGED <<now, prompts_files, prompts_dir, jobs, images, image_files,
                   zip_files, all_jobs_zip, tasks>>
    /\ UNCHANGED <<hubVars, published, zip_inputs, queueVars>>

\* the style prefixes a request may carry
BasePrompts == {"default style", "flat style"}

\* PUT /api/config with base_prompt (config.py:52-69, 128)
update_config_base_prompt(base_prompt) ==
    /\ app_config["base_prompt"] # base_prompt
    /\ app_config' = [app_config EXCEPT !["base_prompt"] = base_prompt]
    /\ UNCHANGED <<now, prompts_files, prompts_dir, jobs, images, image_files,
                   zip_files, all_jobs_zip, tasks>>
    /\ UNCHANGED <<hubVars, published, zip_inputs, queueVars>>

\* -------------------------------------------------------- routes/jobs.py
\* POST /api/jobs (jobs.py:73-117): the job is stored as queued with the
\* configuration read at this moment, and the background task is scheduled
create_job(prompts_file_id) ==
    /\ Len(jobs) < MaxJobs
    /\ HasFree
    /\ prompts_file_id \in 1..Len(prompts_files)
    /\ LET id == Len(jobs) + 1 IN
       /\ jobs' = Append(jobs,
              [id |-> id, status |-> "queued", finished_at |-> 0,
               prompts_file_id |-> prompts_file_id,
               config_snapshot |-> [k \in {"base_prompt", "api_key"} \cap DOMAIN app_config
                                       |-> app_config[k]],
               zip_path |-> 0, zip_size_bytes |-> 0, zip_sha256 |-> NullSha,
               zip_built_at |-> 0])
       /\ tasks' = [tasks EXCEPT ![FreeSlot] =
              [IdleTask EXCEPT !.op = "job_image_generation", !.pc = "start", !.job = id]]
    /\ UNCHANGED <<now, app_config, prompts_files, prompts_dir, images, image_files,
                   zip_files, all_jobs_zip>>
    /\ UNCHANGED <<hubVars, published, zip_inputs, queueVars>>

\* ------------------------------------- services/image_generator.py, jobs.py
\* update_job_status's UPDATE (image_generator.py:44-51): finished_at is
\* written only when one is passed
SetStatus(js, job_id, status, finished_at) ==
    [js EXCEPT ![job_id].status = status,
               ![job_id].finished_at = IF finished_at # 0 THEN finished_at ELSE @]

\* update_job_status's event (image_generator.py:53-57)
JobUpdated(job_id, status, finished_at) ==
    [type |-> "job_updated", job_id |-> job_id, status |-> status,
     finished_at |-> finished_at]

\* image_generator.py:126-131
ImageCreatedMutFirst(image_id, job_id, filename, i, n) ==
    [type |-> "image_created", job_id |-> job_id, image_id |-> image_id,
     filename |-> filename, progress |-> <<1, n>>]

ImageCreated(image_id, job_id, filename, i, n) ==
    [type |-> "image_created", job_id |-> job_id, image_id |-> image_id,
     filename |-> filename, progress |-> <<i, n>>]

Outcomes == {"ok", "rate_limit_hint", "rate_limit", "api_error", "exception"}

\* image_generator.py:25-27  s * random.uniform(0.9, 1.1): the interval the
\* result lies in
Jitter(s) == [lo |-> (s * 9) \div 10, hi |-> (s * 11) \div 10]

\* the retry-after header of a rate-limit response that carries one, in
\* hundredths of a second
RetryAfter == 100

Min(a, b) == IF a < b THEN a ELSE b
Max(a, b) == IF a < b THEN b ELSE a

\* image_generator.py:133-137: the streak grows; at StreakLimit with the delay
\* above MinDelay the delay shrinks to 9/10, not below MinDelay, and the
\* streak starts again
OnSuccessMutNoFloor(delay, streak) ==
    IF streak + 1 >= StreakLimit /\ delay > MinDelay
    THEN [delay |-> (delay * 9) \div 10, success_streak |-> 0]
    ELSE [delay |-> delay, success_streak |-> streak + 1]

OnSuccess(delay, streak) ==
    IF streak + 1 >= StreakLimit /\ delay > MinDelay
    THEN [delay |-> Max(MinDelay, (delay * 9) \div 10), success_streak |-> 0]
    ELSE [delay |-> delay, success_streak |-> streak + 1]

\* image_generator.py:141-152: the streak is reset; with a retry-after hint
\* (<<hint>>) the wait is jitter(hint) and the delay stays, without one (<<>>)
\* the delay doubles up to MaxDelay and the wait is jitter(delay)
OnRateLimitMutKeepStreak(delay, streak, hint) ==
    IF hint # <<>>
    THEN [delay |-> delay, success_streak |-> streak, wait |-> Jitter(hint[1])]
    ELSE [delay |-> Min(MaxDelay, delay * 2), success_streak |-> streak,
          wait |-> Jitter(Min(MaxDelay, delay * 2))]

OnRateLimit(delay, streak, hint) ==
    IF hint # <<>>
    THEN [delay |-> delay, success_streak |-> 0, wait |-> Jitter(hint[1])]
    ELSE [delay |-> Min(MaxDelay, delay * 2), success_streak |-> 0,
          wait |-> Jitter(Min(MaxDelay, delay * 2))]

\* image_generator.py:157-159: the wait of a provider error
OnApiError(delay) == Jitter(Min(MaxDelay, (delay * 3) \div 2))

\* the throttle fields of a worker after one provider call with this outcome
\* (image_generator.py:133-164); an unclassified exception touches none
Throttled(tk, outcome) ==
    CASE outcome = "ok" ->
           LET th == OnSuccess(tk.delay, tk.success_streak) IN
           [tk EXCEPT !.delay = th.delay, !.success_streak = th.success_streak,
                      !.ok_run = IF th.delay # tk.delay THEN 0 ELSE tk.ok_run + 1]
      [] outcome \in {"rate_limit_hint", "rate_limit"} ->
           LET th == OnRateLimit(tk.delay, tk.success_streak,
                                 IF outcome = "rate_limit_hint"
                                 THEN <<RetryAfter>> ELSE <<>>) IN
           [tk EXCEPT !.delay = th.delay, !.success_streak = th.success_streak,
                      !.wait = th.wait, !.ok_run = 0]
      [] outcome = "api_error" ->
           [tk EXCEPT !.wait = OnApiError(tk.delay), !.ok_run = 0]
      [] outcome = "exception" -> [tk EXCEPT !.ok_run = 0]

\* image_generator.py:61  `if not api_key`
NoCredentialMutNever(api_key) == FALSE

NoCredential(api_key) == api_key = ""

\* jobs.py:46  config = json.loads(job.config_snapshot)
WorkerConfigMutLive(job) ==
    [k \in {"base_prompt", "api_key"} \cap DOMAIN app_config |-> app_config[k]]

WorkerConfig(job) == job.config_snapshot

\* jobs.py:20-54 and image_generator.py:59-66: the background task reads its
\* job, the prompts file and its lines, takes the key and the style from the
\* job's snapshot, and writes the first status.  The reads decide nothing but
\* the three ways out below, so they share the step of the first write.
WorkerStart(t) ==
    LET tk == tasks[t]
        job == JobById(tk.job)
        pf_ok == job.prompts_file_id \in 1..Len(prompts_files)
        path == prompts_files[job.prompts_file_id].path
        snap == WorkerConfig(job)
        key == IF HasKey(snap, "api_key") THEN snap["api_key"] ELSE ""
        base == IF HasKey(snap, "base_prompt") THEN snap["base_prompt"] ELSE ""
    IN
    /\ tk.op = "job_image_generation" /\ tk.pc = "start"
    /\ IF ~pf_ok THEN
           \* jobs.py:39-40  return
           /\ Finish(t, "returned")
           /\ UNCHANGED jobs
       ELSE IF path \notin DOMAIN prompts_dir THEN
           \* jobs.py:43  open() raises outside the try
           /\ Finish(t, "FileNotFoundError")
           /\ UNCHANGED jobs
       ELSE
           /\ tasks' = [tasks EXCEPT ![t] =
                  [tk EXCEPT !.prompts = prompts_dir[path], !.base_prompt = base,
                             !.api_key = key, !.delay = InitialDelay,
                             !.success_streak = 0,
                             !.pc = IF NoCredential(key) THEN "failed_emit"
                                    ELSE "running_emit"]]
           /\ jobs' = SetStatus(jobs, tk.job,
                                 IF NoCredential(key) THEN "failed" ELSE "running", 0)
    /\ UNCHANGED <<now, app_config, prompts_files, prompts_dir, images, image_files,
                   zip_files, all_jobs_zip>>
    /\ UNCHANGED <<hubVars, published, zip_inputs, queueVars>>

\* image_generator.py:62-63 and jobs.py:63-67: the event of the failed status,
\* ValueError, and the task's handler, which selects the job again
WorkerFailedEmit(t) ==
    LET tk == tasks[t] IN
    /\ tk.op = "job_image_generation" /\ tk.pc = "failed_emit"
    /\ Broadcast(<<JobUpdated(tk.job, "failed", 0)>>)
    /\ tasks' = [tasks EXCEPT ![t] = [tk EXCEPT !.pc = "failed_write"]]
    /\ UNCHANGED <<now, app_config, prompts_files, prompts_dir, jobs, images,
                   image_files, zip_files, all_jobs_zip>>
    /\ UNCHANGED <<event_subscribers, subPc, delivered, regAt, zip_inputs, queueVars>>

\* jobs.py:68-70: the handler assigns failed and a finish time to the Job
\* object of its session and commits. After an empty credential the object
\* already holds failed, the status update_job_status synchronised into it, so
\* the UPDATE the commit flushes carries the one attribute that changed,
\* finished_at; after a run that succeeded the object holds succeeded and the
\* UPDATE carries the status too. No event is broadcast
WorkerFailedWrite(t) ==
    LET tk == tasks[t] IN
    /\ tk.op = "job_image_generation" /\ tk.pc = "failed_write"
    /\ jobs' = [jobs EXCEPT ![tk.job].finished_at = now,
                            ![tk.job].status = IF tk.seen = "succeeded"
                                               THEN "failed" ELSE @]
    /\ Finish(t, "failed")
    /\ UNCHANGED <<now, app_config, prompts_files, prompts_dir, images, image_files,
                   zip_files, all_jobs_zip>>
    /\ UNCHANGED <<hubVars, published, zip_inputs, queueVars>>

\* the end of one prompt's attempts (image_generator.py:76-85, 166-170): the
\* while loop goes on with the same prompt, or the for loop sleeps before the
\* next prompt, or the job is marked succeeded
LoopStepMutAbort(t, tk, again) ==
    IF again THEN
        /\ tasks' = [tasks EXCEPT ![t] = [tk EXCEPT !.pc = "call"]]
        /\ UNCHANGED jobs
    ELSE IF tk.retry_count >= MaxRetries THEN
        /\ Finish(t, "failed")
        /\ jobs' = SetStatus(jobs, tk.job, "failed", now)
    ELSE IF tk.i < Len(tk.prompts) THEN
        /\ tasks' = [tasks EXCEPT ![t] = [tk EXCEPT !.i = tk.i + 1, !.pc = "sleep"]]
        /\ UNCHANGED jobs
    ELSE
        /\ tasks' = [tasks EXCEPT ![t] = [tk EXCEPT !.at = now, !.pc = "succeeded_emit"]]
        /\ jobs' = SetStatus(jobs, tk.job, "succeeded", now)

LoopStep(t, tk, again) ==
    IF again THEN
        /\ tasks' = [tasks EXCEPT ![t] = [tk EXCEPT !.pc = "call"]]
        /\ UNCHANGED jobs
    ELSE IF tk.i < Len(tk.prompts) THEN
        /\ tasks' = [tasks EXCEPT ![t] = [tk EXCEPT !.i = tk.i + 1, !.pc = "sleep"]]
        /\ UNCHANGED jobs
    ELSE
        /\ tasks' = [tasks EXCEPT ![t] = [tk EXCEPT !.at = now, !.pc = "succeeded_emit"]]
        /\ jobs' = SetStatus(jobs, tk.job, "succeeded", now)

\* image_generator.py:66-90: the event of the running status, then the first
\* prompt's first provider call (no sleep before i = 1)
WorkerRunningEmit(t) ==
    LET tk == tasks[t] IN
    /\ tk.op = "job_image_generation" /\ tk.pc = "running_emit"
    /\ Broadcast(<<JobUpdated(tk.job, "running", 0)>>)
    /\ IF tk.prompts = <<>>
       THEN LoopStep(t, tk, FALSE)
       ELSE LoopStep(t, [tk EXCEPT !.i = 1, !.retry_count = 0], TRUE)
    /\ UNCHANGED <<now, app_config, prompts_files, prompts_dir, images, image_files,
                   zip_files, all_jobs_zip>>
    /\ UNCHANGED <<event_subscribers, subPc, delivered, regAt, zip_inputs, queueVars>>

\* image_generator.py:78-82: asyncio.sleep(jitter(delay)) is over, retry_count = 0
SleepDone(t) ==
    LET tk == tasks[t] IN
    /\ tk.op = "job_image_generation" /\ tk.pc = "sleep"
    /\ tasks' = [tasks EXCEPT ![t] = [tk EXCEPT !.retry_count = 0, !.pc = "call"]]
    /\ UNCHANGED <<now, app_config, prompts_files, prompts_dir, jobs, images,
                   image_files, zip_files, all_jobs_zip>>
    /\ UNCHANGED <<hubVars, published, zip_inputs, queueVars>>

\* image_generator.py:154-155, 159-160: the backoff sleep is over, retry_count += 1
BackoffDone(t) ==
    LET tk == tasks[t]
        tk2 == [tk EXCEPT !.retry_count = tk.retry_count + 1, !.wait = NoWait,
                          !.seen = ""] IN
    /\ tk.op = "job_image_generation" /\ tk.pc = "backoff"
    /\ LoopStep(t, tk2, tk2.retry_count < MaxRetries)
    /\ UNCHANGED <<now, app_config, prompts_files, prompts_dir, images, image_files,
                   zip_files, all_jobs_zip>>
    /\ UNCHANGED <<hubVars, published, zip_inputs, queueVars>>

\* image_generator.py:90-122 and 141-164: client.images.generate returns or
\* raises.  On success the bytes are written to the file of prompt i and the
\* image record is committed; a rate-limit error resets the streak and, with no
\* retry-after hint, doubles the delay; both classified errors sleep before
\* retry_count += 1; any other exception counts a retry at once.  While the
\* worker sleeps in a handler, seen names the error that handler caught.
ProviderReturns(t, outcome) ==
    LET tk == tasks[t]
        path == ImagePath(tk.job, tk.i, tk.prompts[tk.i])
        id == Len(images) + 1
    IN
    /\ tk.op = "job_image_generation" /\ tk.pc = "call"
    /\ CASE outcome = "ok" ->
              /\ image_files' = [p \in DOMAIN image_files \cup {path} |->
                                    IF p = path THEN [call |-> id] ELSE image_files[p]]
              /\ images' = Append(images, [id |-> id, job_id |-> tk.job, path |-> path,
                                           prompt_text |-> tk.prompts[tk.i]])
              /\ tasks' = [tasks EXCEPT ![t] = [tk EXCEPT !.pc = "refresh", !.read = <<id>>]]
              /\ UNCHANGED jobs
         [] outcome \in {"rate_limit_hint", "rate_limit", "api_error"} ->
              /\ tasks' = [tasks EXCEPT ![t] =
                     [Throttled(tk, outcome) EXCEPT !.seen = outcome, !.pc = "backoff"]]
              /\ UNCHANGED <<jobs, images, image_files>>
         [] outcome = "exception" ->
              /\ LET tk2 == [Throttled(tk, outcome) EXCEPT
                                !.retry_count = tk.retry_count + 1] IN
                 LoopStep(t, tk2, tk2.retry_count < MaxRetries)
              /\ UNCHANGED <<images, image_files>>
    /\ UNCHANGED <<now, app_config, prompts_files, prompts_dir, zip_files,
                   all_jobs_zip>>
    /\ UNCHANGED <<hubVars, published, zip_inputs, queueVars>>

\* image_generator.py:123-139 and 162-164: db.refresh(image_record) returns, the
\* image_created event goes out, the streak grows and after StreakLimit
\* successes the delay shrinks to 9/10, floored; or refresh raises after the
\* commit, which `except Exception` counts as a failed attempt of this prompt
RefreshReturns(t, raised) ==
    LET tk == tasks[t] IN
    /\ tk.op = "job_image_generation" /\ tk.pc = "refresh"
    /\ IF raised THEN
           /\ LET tk2 == [Throttled(tk, "exception") EXCEPT
                             !.retry_count = tk.retry_count + 1, !.read = <<>>] IN
              LoopStep(t, tk2, tk2.retry_count < MaxRetries)
           /\ UNCHANGED <<hubVars, published, zip_inputs, queueVars>>
       ELSE
           /\ Broadcast(<<ImageCreated(tk.read[1], tk.job,
                                       PathName(ImagePath(tk.job, tk.i, tk.prompts[tk.i])),
                                       tk.i, Len(tk.prompts))>>)
           /\ LoopStep(t, [Throttled(tk, "ok") EXCEPT !.read = <<>>], FALSE)
           /\ UNCHANGED <<event_subscribers, subPc, delivered, regAt, zip_inputs, queueVars>>
    /\ UNCHANGED <<now, app_config, prompts_files, prompts_dir, images, image_files,
                   zip_files, all_jobs_zip>>

\* ------------------------------------------- services/zip_generator.py
\* zip_generator.py:50-54: one entry per image record whose file exists, named
\* by the file's name, in the order the records were read
RECURSIVE ZipEntries(_, _)
ZipEntries(ims, files) ==
    IF ims = <<>> THEN <<>>
    ELSE (IF Head(ims).path \in DOMAIN files
          THEN <<[arcname |-> PathName(Head(ims).path), bytes |-> files[Head(ims).path]]>>
          ELSE <<>>) \o ZipEntries(Tail(ims), files)

\* zipfile.ZipFile(zip_path, 'w'): the archive written holds the entries of this
\* build alone, whatever the file held before
ZipWrittenMutAppend(old, entries) == old \o entries

ZipWritten(old, entries) == entries

\* image_generator.py:170 then zip_generator.py:27-30: the event of the
\* succeeded status, then build_job_zip selects the job. The worker's session
\* already holds the Job object, with the status its own UPDATE synchronised
\* into it, and keeps it across commits (expire_on_commit=False), so the
\* status build_job_zip tests is succeeded whatever the row holds by then
WorkerSucceededEmit(t) ==
    LET tk == tasks[t] IN
    /\ tk.op = "job_image_generation" /\ tk.pc = "succeeded_emit"
    /\ Broadcast(<<JobUpdated(tk.job, "succeeded", tk.at)>>)
    /\ tasks' = [tasks EXCEPT ![t] =
           [tk EXCEPT !.seen = "succeeded", !.pc = "zip_images"]]
    /\ UNCHANGED <<now, app_config, prompts_files, prompts_dir, jobs, images,
                   image_files, zip_files, all_jobs_zip>>
    /\ UNCHANGED <<event_subscribers, subPc, delivered, regAt, zip_inputs, queueVars>>

\* what follows build_job_zip in its caller: jobs.py:60-61 invalidates the
\* aggregate, zips.py:32-45 answers 500 on None and the file otherwise
AfterBuild(t, tk, built) ==
    IF tk.op = "job_image_generation" THEN
        tasks' = [tasks EXCEPT ![t] = [tk EXCEPT !.pc = "invalidate", !.read = <<>>]]
    ELSE Finish(t, IF built THEN "200 built" ELSE "500")

\* zip_generator.py:32-38: None unless the job read is succeeded; else the
\* job's image records are read
BuildSelectImages(t) ==
    LET tk == tasks[t] IN
    /\ tk.pc = "zip_images"
    /\ IF tk.seen # "succeeded"
       THEN AfterBuild(t, tk, FALSE)
       ELSE /\ tasks' = [tasks EXCEPT ![t] =
                   [tk EXCEPT !.read = ImagesOf(tk.job), !.pc = "zip_write"]]
    /\ UNCHANGED <<now, app_config, prompts_files, prompts_dir, jobs, images,
                   image_files, zip_files, all_jobs_zip>>
    /\ UNCHANGED <<hubVars, published, zip_inputs, queueVars>>

\* what a build depends on: the image records it read and the files they name
BuildInputs(ims, files) ==
    [read |-> ims,
     files |-> [p \in {ims[k].path : k \in DOMAIN ims} \cap DOMAIN files |-> files[p]]]

\* zip_generator.py:40-71: None without images; else <job id>.zip is written
\* from the image files that exist, hashed and measured, and the four zip_*
\* columns are committed
BuildWrite(t) ==
    LET tk == tasks[t]
        old == IF tk.job \in DOMAIN zip_files THEN zip_files[tk.job] ELSE <<>>
        content == ZipWritten(old, ZipEntries(tk.read, image_files))
    IN
    /\ tk.pc = "zip_write"
    /\ IF tk.read = <<>> THEN
           /\ AfterBuild(t, tk, FALSE)
           /\ UNCHANGED <<jobs, zip_files, zip_inputs>>
       ELSE
           /\ zip_files' = [j \in DOMAIN zip_files \cup {tk.job} |->
                               IF j = tk.job THEN content ELSE zip_files[j]]
           /\ jobs' = [jobs EXCEPT ![tk.job].zip_path = tk.job,
                                   ![tk.job].zip_size_bytes = ZipSize(content),
                                   ![tk.job].zip_sha256 = Sha256(content),
                                   ![tk.job].zip_built_at = now]
           /\ zip_inputs' = [j \in DOMAIN zip_inputs \cup {tk.job} |->
                                IF j = tk.job THEN BuildInputs(tk.read, image_files)
                                ELSE zip_inputs[j]]
           /\ AfterBuild(t, tk, TRUE)
    /\ UNCHANGED <<now, app_config, prompts_files, prompts_dir, images, image_files,
                   all_jobs_zip>>
    /\ UNCHANGED <<hubVars, published, queueVars>>

\* zip_generator.py:46-58 raises: the directory of the archives cannot be
\* made or written (OSError of mkdir, zipfile.ZipFile or open), before any
\* column is written; the error leaves build_job_zip and generate_images'
\* caller handles it (jobs.py:63-67)
BuildRaises(t) ==
    LET tk == tasks[t] IN
    /\ tk.op = "job_image_generation" /\ tk.pc = "zip_write"
    /\ tk.read # <<>>
    /\ tasks' = [tasks EXCEPT ![t] = [tk EXCEPT !.read = <<>>, !.pc = "failed_write"]]
    /\ UNCHANGED <<now, app_config, prompts_files, prompts_dir, jobs, images,
                   image_files, zip_files, all_jobs_zip>>
    /\ UNCHANGED <<hubVars, published, zip_inputs, queueVars>>

AllZipKeys == {"all_jobs_zip_path", "all_jobs_zip_sha256", "all_jobs_zip_built_at"}

\* zip_generator.py:119-137 invalidate_all_jobs_cache, the last call of the
\* background task (jobs.py:61): all_jobs.zip is unlinked, its keys are deleted
WorkerInvalidate(t) ==
    LET tk == tasks[t] IN
    /\ tk.op = "job_image_generation" /\ tk.pc = "invalidate"
    /\ all_jobs_zip' = <<>>
    /\ app_config' = [k \in DOMAIN app_config \ AllZipKeys |-> app_config[k]]
    /\ Finish(t, "done")
    /\ UNCHANGED <<now, prompts_files, prompts_dir, jobs, images, image_files, zip_files>>
    /\ UNCHANGED <<hubVars, published, zip_inputs, queueVars>>

\* ----------------------------------------------------- cancel (jobs.py)
\* a request arrives and its handler runs up to its first SELECT
Arrive(op, job_id, pc) ==
    /\ HasFree
    /\ tasks' = [tasks EXCEPT ![FreeSlot] =
           [IdleTask EXCEPT !.op = op, !.job = job_id, !.pc = pc,
                            !.seen = IF JobExists(job_id) THEN JobById(job_id).status
                                     ELSE "absent",
                            !.zip_path = IF JobExists(job_id) THEN JobById(job_id).zip_path
                                         ELSE 0]]
    /\ UNCHANGED <<now, app_config, prompts_files, prompts_dir, jobs, images,
                   image_files, zip_files, all_jobs_zip>>
    /\ UNCHANGED <<hubVars, published, zip_inputs, queueVars>>

\* POST /api/jobs/{job_id}/cancel, jobs.py:229-234: the job is read
CancelArrive(job_id) == Arrive("cancel_job", job_id, "cancel_check")

\* jobs.py:243-245: the UPDATE the commit flushes
CancelWriteMutNoFinish(js, job_id) == [js EXCEPT ![job_id].status = "canceled"]

CancelWrite(js, job_id) ==
    [js EXCEPT ![job_id].status = "canceled", ![job_id].finished_at = now]

\* jobs.py:239: the statuses a cancel is accepted in
CancelableMutSucceeded(status) == status \in {"queued", "running", "succeeded"}

Cancelable(status) == status \in {"queued", "running"}

\* jobs.py:236-245: 404, 400, or canceled with a finish time
CancelCheck(t) ==
    LET tk == tasks[t] IN
    /\ tk.op = "cancel_job" /\ tk.pc = "cancel_check"
    /\ IF tk.seen = "absent" THEN
           Finish(t, "404") /\ UNCHANGED jobs
       ELSE IF ~Cancelable(tk.seen) THEN
           Finish(t, "400") /\ UNCHANGED jobs
       ELSE
           /\ jobs' = CancelWrite(jobs, tk.job)
           /\ tasks' = [tasks EXCEPT ![t] = [tk EXCEPT !.at = now, !.pc = "cancel_emit"]]
    /\ UNCHANGED <<now, app_config, prompts_files, prompts_dir, images, image_files,
                   zip_files, all_jobs_zip>>
    /\ UNCHANGED <<hubVars, published, zip_inputs, queueVars>>

\* jobs.py:247-259: the job_updated event, then the response
CancelEmit(t) ==
    LET tk == tasks[t] IN
    /\ tk.op = "cancel_job" /\ tk.pc = "cancel_emit"
    /\ Broadcast(<<JobUpdated(tk.job, "canceled", tk.at)>>)
    /\ Finish(t, "200")
    /\ UNCHANGED <<now, app_config, prompts_files, prompts_dir, jobs, images,
                   image_files, zip_files, all_jobs_zip>>
    /\ UNCHANGED <<event_subscribers, subPc, delivered, regAt, zip_inputs, queueVars>>

\* --------------------------------------------------------- routes/zips.py
\* GET /api/jobs/{job_id}/zip, zips.py:14-19: the job is read
DownloadJobArrive(job_id) == Arrive("download_job_zip", job_id, "download_check")

\* zips.py:21-35: 404, 400, the recorded archive when its file exists, or
\* build_job_zip, which reads the job again
DownloadJobCheck(t) ==
    LET tk == tasks[t] IN
    /\ tk.op = "download_job_zip" /\ tk.pc = "download_check"
    /\ IF tk.seen = "absent" THEN Finish(t, "404")
       ELSE IF tk.seen # "succeeded" THEN Finish(t, "400")
       ELSE IF tk.zip_path # 0 /\ tk.zip_path \in DOMAIN zip_files THEN Finish(t, "200 cached")
       ELSE /\ tasks' = [tasks EXCEPT ![t] =
                   [tk EXCEPT !.seen = "succeeded", !.pc = "zip_images"]]
    /\ UNCHANGED <<now, app_config, prompts_files, prompts_dir, jobs, images,
                   image_files, zip_files, all_jobs_zip>>
    /\ UNCHANGED <<hubVars, published, zip_inputs, queueVars>>

\* GET /api/zips/all, zips.py:102-112: the all_jobs_zip_path key is read
DownloadAllArrive ==
    /\ HasFree
    /\ tasks' = [tasks EXCEPT ![FreeSlot] =
           [IdleTask EXCEPT !.op = "download_all_zip", !.pc = "all_check",
                            !.seen = IF HasKey(app_config, "all_jobs_zip_path")
                                        /\ app_config["all_jobs_zip_path"] # ""
                                     THEN "recorded" ELSE "absent"]]
    /\ UNCHANGED <<now, app_config, prompts_files, prompts_dir, jobs, images,
                   image_files, zip_files, all_jobs_zip>>
    /\ UNCHANGED <<hubVars, published, zip_inputs, queueVars>>

\* zips.py:114-133 and zip_generator.py:76-79: with a recorded path whose file
\* exists the hash key is read next; else build_all_jobs_zip reads every image
\* record (ORDER BY job_id, created_at)
DownloadAllCheck(t) ==
    LET tk == tasks[t] IN
    /\ tk.op = "download_all_zip" /\ tk.pc = "all_check"
    /\ IF tk.seen = "recorded" /\ all_jobs_zip # <<>>
       THEN tasks' = [tasks EXCEPT ![t] = [tk EXCEPT !.seen = "cached", !.pc = "all_serve"]]
       ELSE tasks' = [tasks EXCEPT ![t] = [tk EXCEPT !.read = images, !.pc = "all_write"]]
    /\ UNCHANGED <<now, app_config, prompts_files, prompts_dir, jobs, images,
                   image_files, zip_files, all_jobs_zip>>
    /\ UNCHANGED <<hubVars, published, zip_inputs, queueVars>>

\* zip_generator.py:96  arcname = f"job_{image.job_id}/{image_path.name}"
RECURSIVE AllZipEntries(_, _)
AllZipEntries(ims, files) ==
    IF ims = <<>> THEN <<>>
    ELSE (IF Head(ims).path \in DOMAIN files
          THEN <<[arcname |-> <<Head(ims).job_id, PathName(Head(ims).path)>>,
                  bytes |-> files[Head(ims).path]]>>
          ELSE <<>>) \o AllZipEntries(Tail(ims), files)

\* zip_generator.py:106-115: UPDATE app_config ... WHERE key = ...: a key that
\* has no row stays absent
UpdateKey(cfg, key, value) ==
    [k \in DOMAIN cfg |-> IF k = key THEN value ELSE cfg[k]]

\* zip_generator.py:81-117 and zips.py:135-136: None (404) without image
\* records; else all_jobs.zip is written and hashed and the three UPDATEs are
\* committed
DownloadAllWrite(t) ==
    LET tk == tasks[t]
        content == AllZipEntries(tk.read, image_files)
    IN
    /\ tk.op = "download_all_zip" /\ tk.pc = "all_write"
    /\ IF tk.read = <<>> THEN
           /\ Finish(t, "404")
           /\ UNCHANGED <<all_jobs_zip, app_config>>
       ELSE
           /\ all_jobs_zip' = <<content>>
           /\ app_config' =
                  UpdateKey(UpdateKey(UpdateKey(app_config,
                      "all_jobs_zip_path", "all_jobs.zip"),
                      "all_jobs_zip_sha256", Sha256(content)),
                      "all_jobs_zip_built_at", now)
           /\ tasks' = [tasks EXCEPT ![t] = [tk EXCEPT !.read = <<>>, !.seen = "built", !.pc = "all_serve"]]
    /\ UNCHANGED <<now, prompts_files, prompts_dir, jobs, images, image_files, zip_files>>
    /\ UNCHANGED <<hubVars, published, zip_inputs, queueVars>>

\* zips.py:117-130 and 138-151: the hash key is read and all_jobs.zip is
\* served, the one found on disk or the one just built
DownloadAllServe(t) ==
    LET tk == tasks[t] IN
    /\ tk.op = "download_all_zip" /\ tk.pc = "all_serve"
    /\ Finish(t, IF tk.seen = "cached" THEN "200 cached" ELSE "200 built")
    /\ UNCHANGED <<now, app_config, prompts_files, prompts_dir, jobs, images,
                   image_files, zip_files, all_jobs_zip>>
    /\ UNCHANGED <<hubVars, published, zip_inputs, queueVars>>

\* -------------------------------------------------------- routes/images.py
\* DELETE /api/images with X-Confirm: delete-all, images.py:104-106: every
\* image record is read
DeleteAllArrive ==
    /\ HasFree
    /\ tasks' = [tasks EXCEPT ![FreeSlot] =
           [IdleTask EXCEPT !.op = "delete_all_images", !.pc = "unlink_images",
                            !.read = images]]
    /\ UNCHANGED <<now, app_config, prompts_files, prompts_dir, jobs, images,
                   image_files, zip_files, all_jobs_zip>>
    /\ UNCHANGED <<hubVars, published, zip_inputs, queueVars>>

\* images.py:108-120: the files of the records read are unlinked, DELETE FROM
\* images is executed inside the session's transaction (not committed), and the
\* jobs that record an archive are read (Run is the jobs table by its former
\* name: runs.py is jobs.py before the renaming)
DeleteAllUnlinkImages(t) ==
    LET tk == tasks[t]
        gone == {tk.read[k].path : k \in 1..Len(tk.read)}
    IN
    /\ tk.op = "delete_all_images" /\ tk.pc = "unlink_images"
    /\ image_files' = [p \in DOMAIN image_files \ gone |-> image_files[p]]
    /\ tasks' = [tasks EXCEPT ![t] =
           [tk EXCEPT !.read = SelectSeq(jobs, LAMBDA j : j.zip_path # 0),
                      !.pc = "unlink_zips"]]
    /\ UNCHANGED <<now, app_config, prompts_files, prompts_dir, jobs, images,
                   zip_files, all_jobs_zip>>
    /\ UNCHANGED <<hubVars, published, zip_inputs, queueVars>>

\* images.py:123-138: the archives of the jobs read are unlinked and their
\* zip_* attributes cleared in the session; then zip_service has no attribute
\* invalidate_all_runs_cache (zip_generator.py defines invalidate_all_jobs_cache):
\* AttributeError, the commit of line 140 is never reached and the session
\* rolls back, so no record changes and all_jobs.zip stays
DeleteAllUnlinkZips(t) ==
    LET tk == tasks[t]
        gone == {tk.read[k].zip_path : k \in 1..Len(tk.read)}
    IN
    /\ tk.op = "delete_all_images" /\ tk.pc = "unlink_zips"
    /\ zip_files' = [j \in DOMAIN zip_files \ gone |-> zip_files[j]]
    /\ Finish(t, "500 AttributeError")
    /\ UNCHANGED <<now, app_config, prompts_files, prompts_dir, jobs, images,
                   image_files, all_jobs_zip>>
    /\ UNCHANGED <<hubVars, published, zip_inputs, queueVars>>

\* ------------------------------------------- routes/prompt_generator.py
\* every variable the prompt queue's handlers leave alone
notQueue == <<now, app_config, jobs, images, image_files, zip_files, all_jobs_zip,
              zip_inputs, hubVars>>

GenNames == {"a.txt", "b.txt"}

\* the id an INTEGER PRIMARY KEY column gives the next row: one more than the
\* largest id in the table
NextId(rows) ==
    IF rows = <<>> THEN 1
    ELSE 1 + (CHOOSE m \in {rows[k].id : k \in DOMAIN rows} :
                  \A k \in DOMAIN rows : rows[k].id <= m)

\* DELETE ... WHERE id = :id
DeleteById(rows, id) == SelectSeq(rows, LAMBDA r : r.id # id)

\* the prompts the provider wrote for the generated file with this id
GeneratedPrompts(id) == <<PromptAt(id)>>

\* POST /api/prompt-generator/generate (prompt_generator.py:128-243): 400
\* without an API key; else the file is written under the name the provider
\* chose and its record is committed
generate_prompts(filename) ==
    /\ HasFree
    /\ Len(generated_files) < MaxGenerated
    /\ IF app_config["api_key"] = "" THEN
           /\ tasks' = [tasks EXCEPT ![FreeSlot] =
                  [IdleTask EXCEPT !.op = "generate_prompts", !.pc = "done",
                                   !.response = "400"]]
           /\ UNCHANGED <<generated_files, generated_dir>>
       ELSE
           LET id == Len(generated_files) + 1 IN
           /\ generated_dir' = [p \in DOMAIN generated_dir \cup {filename} |->
                  IF p = filename THEN GeneratedPrompts(id) ELSE generated_dir[p]]
           /\ generated_files' = Append(generated_files,
                  [id |-> id, filename |-> filename, path |-> filename])
           /\ tasks' = [tasks EXCEPT ![FreeSlot] =
                  [IdleTask EXCEPT !.op = "generate_prompts", !.pc = "done",
                                   !.response = "200"]]
    /\ UNCHANGED <<prompts_files, prompts_dir, prompt_queue, published>>
    /\ UNCHANGED notQueue

\* a file under data/generated_prompts is removed outside the application; the
\* handlers below test for it (prompt_generator.py:58, 310)
GeneratedFileLost(path) ==
    /\ path \in DOMAIN generated_dir
    /\ generated_dir' = [p \in DOMAIN generated_dir \ {path} |-> generated_dir[p]]
    /\ UNCHANGED <<generated_files, prompt_queue, prompts_files, prompts_dir,
                   tasks, published>>
    /\ UNCHANGED notQueue

\* SELECT ... WHERE id = :id, scalar_one_or_none: <<>> or <<row>>
RowById(rows, id) == SelectSeq(rows, LAMBDA r : r.id = id)

\* prompt_generator.py:316-318: the queue entries of a generated file
ExistingEntriesMutNone(file_id) == <<>>

ExistingEntries(file_id) ==
    SelectSeq(prompt_queue, LAMBDA r : r.generated_file_id = file_id)

\* POST /api/prompt-generator/queue/{file_id}, prompt_generator.py:300-303: the
\* generated file's record is read
QueueArrive(file_id) ==
    /\ HasFree
    /\ tasks' = [tasks EXCEPT ![FreeSlot] =
           [IdleTask EXCEPT !.op = "queue_generated_file", !.param = file_id,
                            !.generated_file = RowById(generated_files, file_id),
                            !.pc = "q_existing"]]
    /\ UNCHANGED <<queueVars, prompts_files, prompts_dir, published>>
    /\ UNCHANGED notQueue

\* prompt_generator.py:305-318: 404 without the record or without the file on
\* disk; else the entries of this file are read, and scalar_one_or_none raises
\* on more than one
QueueSelectExisting(t) ==
    LET tk == tasks[t] IN
    /\ tk.op = "queue_generated_file" /\ tk.pc = "q_existing"
    /\ IF tk.generated_file = <<>> THEN Finish(t, "404")
       ELSE IF tk.generated_file[1].path \notin DOMAIN generated_dir
       THEN Finish(t, "404")
       ELSE IF Len(ExistingEntries(tk.param)) > 1
       THEN Finish(t, "500 MultipleResultsFound")
       ELSE tasks' = [tasks EXCEPT ![t] =
                [tk EXCEPT !.read = ExistingEntries(tk.param), !.pc = "q_insert"]]
    /\ UNCHANGED <<queueVars, prompts_files, prompts_dir, published>>
    /\ UNCHANGED notQueue

\* prompt_generator.py:320-334: the existing entry's id is returned with
\* already_queued, or a pending entry is inserted and committed
QueueInsert(t) ==
    LET tk == tasks[t]
        id == NextId(prompt_queue)
    IN
    /\ tk.op = "queue_generated_file" /\ tk.pc = "q_insert"
    /\ IF tk.read # <<>> THEN
           /\ tasks' = [tasks EXCEPT ![t] =
                  [IdleTask EXCEPT !.op = tk.op, !.param = tk.param, !.pc = "done",
                                   !.queue_item = tk.read,
                                   !.response = "200 already_queued"]]
           /\ UNCHANGED prompt_queue
       ELSE
           /\ prompt_queue' = Append(prompt_queue,
                  [id |-> id, generated_file_id |-> tk.param, status |-> "pending",
                   queued_at |-> now, completed_at |-> 0, prompts_file_id |-> 0])
           /\ tasks' = [tasks EXCEPT ![t] =
                  [tk EXCEPT !.queue_item = <<[id |-> id,
                                               generated_file_id |-> tk.param]>>,
                             !.pc = "q_refresh"]]
    /\ UNCHANGED <<generated_files, generated_dir, prompts_files, prompts_dir,
                   published>>
    /\ UNCHANGED notQueue

\* prompt_generator.py:335: db.refresh reads the entry back, and raises when
\* its row was deleted meanwhile
QueueRefresh(t) ==
    LET tk == tasks[t] IN
    /\ tk.op = "queue_generated_file" /\ tk.pc = "q_refresh"
    /\ IF RowById(prompt_queue, tk.queue_item[1].id) = <<>>
       THEN Finish(t, "500 InvalidRequestError")
       ELSE tasks' = [tasks EXCEPT ![t] = [tk EXCEPT !.pc = "q_added"]]
    /\ UNCHANGED <<queueVars, prompts_files, prompts_dir, published>>
    /\ UNCHANGED notQueue

\* prompt_generator.py:87: the status a promoted prompts file is stored with
PromotedStatusMutProcessing == "processing"

PromotedStatus == "pending"

\* prompt_generator.py:33-39: the pending entry queued first (the one stored
\* first among those queued at the same instant), as <<>> or <<entry>>
OldestPendingMutNewest ==
    LET pend == SelectSeq(prompt_queue, LAMBDA r : r.status = "pending") IN
    IF pend = <<>> THEN <<>>
    ELSE <<pend[CHOOSE k \in DOMAIN pend :
                   \A m \in DOMAIN pend :
                       \/ pend[k].queued_at > pend[m].queued_at
                       \/ pend[k].queued_at = pend[m].queued_at /\ k >= m]>>

OldestPending ==
    LET pend == SelectSeq(prompt_queue, LAMBDA r : r.status = "pending") IN
    IF pend = <<>> THEN <<>>
    ELSE <<pend[CHOOSE k \in DOMAIN pend :
                   \A m \in DOMAIN pend :
                       \/ pend[k].queued_at < pend[m].queued_at
                       \/ pend[k].queued_at = pend[m].queued_at /\ k <= m]>>

\* prompt_generator.py:337-343 then 26-31: the added event is published, and
\* _process_next_prompt_queue_item looks for a prompts file in processing and
\* ends there when it finds one
QueueAddedEmit(t) ==
    LET tk == tasks[t] IN
    /\ tk.op = "queue_generated_file" /\ tk.pc = "q_added"
    /\ Broadcast(<<[type |-> "prompt_queue_updated", action |-> "added",
                    queue_id |-> tk.queue_item[1].id,
                    filename |-> tk.generated_file[1].filename]>>)
    /\ IF \E k \in DOMAIN prompts_files : prompts_files[k].status = "processing"
       THEN Finish(t, "200 queued")
       ELSE tasks' = [tasks EXCEPT ![t] = [tk EXCEPT !.pc = "h_next"]]
    /\ UNCHANGED <<queueVars, prompts_files, prompts_dir>>
    /\ UNCHANGED <<now, app_config, jobs, images, image_files, zip_files,
                   all_jobs_zip, zip_inputs, event_subscribers, subPc, delivered,
                   regAt>>

\* prompt_generator.py:33-43: the oldest pending entry is read; without one the
\* helper ends
HelperSelectNext(t) ==
    LET tk == tasks[t] IN
    /\ tk.op = "queue_generated_file" /\ tk.pc = "h_next"
    /\ IF OldestPending = <<>> THEN Finish(t, "200 queued")
       ELSE tasks' = [tasks EXCEPT ![t] =
                [tk EXCEPT !.queue_item = OldestPending, !.pc = "h_file"]]
    /\ UNCHANGED <<queueVars, prompts_files, prompts_dir, published>>
    /\ UNCHANGED notQueue

\* prompt_generator.py:46-49: the entry's generated file record is read
HelperSelectFile(t) ==
    LET tk == tasks[t] IN
    /\ tk.op = "queue_generated_file" /\ tk.pc = "h_file"
    /\ tasks' = [tasks EXCEPT ![t] =
           [tk EXCEPT !.generated_file =
                          RowById(generated_files, tk.queue_item[1].generated_file_id),
                      !.pc = "h_copy"]]
    /\ UNCHANGED <<queueVars, prompts_files, prompts_dir, published>>
    /\ UNCHANGED notQueue

\* prompt_generator.py:51-91: an entry without its record or without its file
\* on disk is deleted (a DELETE that matches no row only warns); else the file
\* is copied to data/prompts under {timestamp}_{filename} and a prompts file
\* record with its hash is committed
HelperCopy(t) ==
    LET tk == tasks[t]
        item == tk.queue_item[1]
    IN
    /\ tk.op = "queue_generated_file" /\ tk.pc = "h_copy"
    /\ IF tk.generated_file = <<>> \/ (tk.generated_file # <<>> /\
              tk.generated_file[1].path \notin DOMAIN generated_dir)
       THEN
           /\ prompt_queue' = DeleteById(prompt_queue, item.id)
           /\ tasks' = [tasks EXCEPT ![t] = [tk EXCEPT !.pc = "h_orphan"]]
           /\ UNCHANGED <<prompts_files, prompts_dir>>
       ELSE
           LET gf == tk.generated_file[1]
               content == generated_dir[gf.path]
               dest == [timestamp |-> now, filename |-> gf.filename]
               pf == [id |-> Len(prompts_files) + 1, filename |-> gf.filename,
                      sha256 |-> Sha256(content), path |-> dest,
                      status |-> PromotedStatus, queue_id |-> item.id]
           IN
           /\ prompts_dir' = [p \in DOMAIN prompts_dir \cup {dest} |->
                                  IF p = dest THEN content ELSE prompts_dir[p]]
           /\ prompts_files' = Append(prompts_files, pf)
           /\ tasks' = [tasks EXCEPT ![t] =
                  [tk EXCEPT !.prompts_file = <<pf>>, !.pc = "h_complete"]]
           /\ UNCHANGED prompt_queue
    /\ UNCHANGED <<generated_files, generated_dir, published>>
    /\ UNCHANGED notQueue

\* prompt_generator.py:55-56, 63-64: the removed event of an orphaned entry
HelperOrphanEmit(t) ==
    LET tk == tasks[t] IN
    /\ tk.op = "queue_generated_file" /\ tk.pc = "h_orphan"
    /\ Broadcast(<<[type |-> "prompt_queue_updated", action |-> "removed",
                    queue_id |-> tk.queue_item[1].id]>>)
    /\ Finish(t, "200 queued")
    /\ UNCHANGED <<queueVars, prompts_files, prompts_dir>>
    /\ UNCHANGED <<now, app_config, jobs, images, image_files, zip_files,
                   all_jobs_zip, zip_inputs, event_subscribers, subPc, delivered,
                   regAt>>

\* UPDATE prompt_queue SET status, completed_at, prompts_file_id WHERE id = :id
CompleteEntry(rows, id, prompts_file_id) ==
    [k \in DOMAIN rows |->
        IF rows[k].id = id
        THEN [rows[k] EXCEPT !.status = "completed", !.completed_at = now,
                             !.prompts_file_id = prompts_file_id]
        ELSE rows[k]]

\* prompt_generator.py:92-99: the prompts file is read back, the entry is
\* marked completed and linked to it; the UPDATE of a row deleted meanwhile
\* raises StaleDataError, which queue_generated_file swallows (345-348)
HelperComplete(t) ==
    LET tk == tasks[t]
        item == tk.queue_item[1]
    IN
    /\ tk.op = "queue_generated_file" /\ tk.pc = "h_complete"
    /\ IF RowById(prompt_queue, item.id) = <<>> THEN
           /\ Finish(t, "200 queued")
           /\ UNCHANGED prompt_queue
       ELSE
           /\ prompt_queue' = CompleteEntry(prompt_queue, item.id, tk.prompts_file[1].id)
           /\ tasks' = [tasks EXCEPT ![t] = [tk EXCEPT !.pc = "h_emit"]]
    /\ UNCHANGED <<generated_files, generated_dir, prompts_files, prompts_dir,
                   published>>
    /\ UNCHANGED notQueue

\* prompt_generator.py:101-112: the completed event, then the added event
HelperEmit(t) ==
    LET tk == tasks[t] IN
    /\ tk.op = "queue_generated_file" /\ tk.pc = "h_emit"
    /\ Broadcast(<<[type |-> "prompt_queue_updated", action |-> "completed",
                    queue_id |-> tk.queue_item[1].id,
                    prompts_file_id |-> tk.prompts_file[1].id],
                   [type |-> "prompts_file_added",
                    prompts_file_id |-> tk.prompts_file[1].id,
                    filename |-> tk.prompts_file[1].filename]>>)
    /\ Finish(t, "200 queued")
    /\ UNCHANGED <<queueVars, prompts_files, prompts_dir>>
    /\ UNCHANGED <<now, app_config, jobs, images, image_files, zip_files,
                   all_jobs_zip, zip_inputs, event_subscribers, subPc, delivered,
                   regAt>>

\* DELETE /api/prompt-generator/queue/{queue_id}, prompt_generator.py:398-401:
\* the entry is read
RemoveArrive(queue_id) ==
    /\ HasFree
    /\ tasks' = [tasks EXCEPT ![FreeSlot] =
           [IdleTask EXCEPT !.op = "remove_from_prompt_queue", !.param = queue_id,
                            !.queue_item = RowById(prompt_queue, queue_id),
                            !.pc = "r_delete"]]
    /\ UNCHANGED <<queueVars, prompts_files, prompts_dir, published>>
    /\ UNCHANGED notQueue

\* prompt_generator.py:407  queue_item.status == 'processing'
InProcessingMutNever(item) == FALSE

InProcessing(item) == item.status = "processing"

\* prompt_generator.py:403-411: 404 without the entry, 400 for one in
\* processing; else its row is deleted and the delete committed
RemoveDelete(t) ==
    LET tk == tasks[t] IN
    /\ tk.op = "remove_from_prompt_queue" /\ tk.pc = "r_delete"
    /\ IF tk.queue_item = <<>> THEN
           Finish(t, "404") /\ UNCHANGED prompt_queue
       ELSE IF InProcessing(tk.queue_item[1]) THEN
           Finish(t, "400") /\ UNCHANGED prompt_queue
       ELSE
           /\ prompt_queue' = DeleteById(prompt_queue, tk.param)
           /\ tasks' = [tasks EXCEPT ![t] = [tk EXCEPT !.pc = "r_emit"]]
    /\ UNCHANGED <<generated_files, generated_dir, prompts_files, prompts_dir,
                   published>>
    /\ UNCHANGED notQueue

\* prompt_generator.py:413-420: the removed event, then the response
RemoveEmit(t) ==
    LET tk == tasks[t] IN
    /\ tk.op = "remove_from_prompt_queue" /\ tk.pc = "r_emit"
    /\ Broadcast(<<[type |-> "prompt_queue_updated", action |-> "removed",
                    queue_id |-> tk.param]>>)
    /\ Finish(t, "200")
    /\ UNCHANGED <<queueVars, prompts_files, prompts_dir>>
    /\ UNCHANGED <<now, app_config, jobs, images, image_files, zip_files,
                   all_jobs_zip, zip_inputs, event_subscribers, subPc, delivered,
                   regAt>>

\* POST /api/prompt-generator/queue/process-next: the router matches routes in
\* the order they were declared, and "/queue/{file_id}" (prompt_generator.py:293)
\* is declared before "/queue/process-next" (423), so the request is given to
\* queue_generated_file with file_id = "process-next", which is no integer:
\* 422, and process_next_in_queue (424-517) does not run
process_next_in_queue ==
    /\ HasFree
    /\ tasks' = [tasks EXCEPT ![FreeSlot] =
           [IdleTask EXCEPT !.op = "process_next_in_queue", !.pc = "done",
                            !.response = "422"]]
    /\ UNCHANGED <<queueVars, prompts_files, prompts_dir, published>>
    /\ UNCHANGED notQueue

JobInit ==
    /\ now = 1
    /\ app_config = [k \in {"base_prompt", "api_key", "prompt_designer_template"} |->
                        CASE k = "api_key" -> ""
                          [] k = "base_prompt" -> "default style"
                          [] OTHER -> "template"]
    /\ prompts_files = <<>>
    /\ prompts_dir = <<>>
    /\ jobs = <<>>
    /\ images = <<>>
    /\ image_files = <<>>
    /\ zip_files = <<>>
    /\ all_jobs_zip = <<>>
    /\ tasks = [t \in Tasks |-> IdleTask]
    /\ zip_inputs = <<>>
    /\ generated_files = <<>>
    /\ generated_dir = <<>>
    /\ prompt_queue = <<>>

HubInit ==
    /\ event_subscribers = <<>>
    /\ queues = [s \in Subs |-> <<>>]
    /\ subPc = [s \in Subs |-> "idle"]
    /\ delivered = [s \in Subs |-> <<>>]
    /\ regAt = [s \in Subs |-> 0]
    /\ published = <<>>

Init == HubInit /\ JobInit

NextHub ==
    \/ \E ev \in HubEvents : Publish(ev)
    \/ \E s \in Subs : Subscribe(s)
    \/ \E s \in Subs : Yield(s)
    \/ \E s \in Subs : Resume(s)
    \/ \E s \in Subs : CancelSub(s)
    \/ \E s \in Subs : CloseSub(s)

SpecHub == Init /\ [][NextHub]_vars

\* the response is sent, or the ended background task is dropped
Respond(t) ==
    /\ tasks[t].pc = "done"
    /\ tasks' = [tasks EXCEPT ![t] = IdleTask]
    /\ UNCHANGED <<now, app_config, prompts_files, prompts_dir, jobs, images,
                   image_files, zip_files, all_jobs_zip>>
    /\ UNCHANGED <<hubVars, published, zip_inputs, queueVars>>

\* the orchestrator and the worker, with cancel requests; the configuration is
\* edited before the jobs are created (a job reads its snapshot alone)
NextJob ==
    \/ \E n \in 1..MaxPrompts : upload_prompts_file("a.txt", n)
    \/ \E k \in ApiKeys : jobs = <<>> /\ update_config(k)
    \/ \E f \in 1..MaxSources : create_job(f)
    \/ \E t \in Tasks : WorkerStart(t)
    \/ \E t \in Tasks : WorkerFailedEmit(t)
    \/ \E t \in Tasks : WorkerFailedWrite(t)
    \/ \E t \in Tasks : WorkerRunningEmit(t)
    \/ \E t \in Tasks : SleepDone(t)
    \/ \E t \in Tasks : BackoffDone(t)
    \/ \E t \in Tasks, outcome \in Outcomes : ProviderReturns(t, outcome)
    \/ \E t \in Tasks, raised \in BOOLEAN : RefreshReturns(t, raised)
    \/ \E t \in Tasks : WorkerSucceededEmit(t)
    \/ \E t \in Tasks : BuildSelectImages(t)
    \/ \E t \in Tasks : BuildWrite(t)
    \/ \E t \in Tasks : WorkerInvalidate(t)
    \/ \E j \in 1..MaxJobs : CancelArrive(j)
    \/ \E t \in Tasks : CancelCheck(t)
    \/ \E t \in Tasks : CancelEmit(t)
    \/ \E t \in Tasks : Respond(t)

SpecJob == Init /\ [][NextJob]_vars

\* the provider outcomes that differ in what they leave in the record store
\* and on disk (the classified errors differ from "exception" in the throttle
\* state and in sleeping, neither of which an archive reads)
ZipOutcomes == {"ok", "exception"}

\* the worker and the archive cache, with download and delete-all requests;
\* the jobs have one prompt, so the worker neither throttles nor backs off
NextZip ==
    \/ \E n \in 1..ZipMaxPrompts : upload_prompts_file("a.txt", n)
    \/ \E k \in ApiKeys : jobs = <<>> /\ update_config(k)
    \/ \E f \in 1..MaxSources : create_job(f)
    \/ \E t \in Tasks : WorkerStart(t)
    \/ \E t \in Tasks : WorkerFailedEmit(t)
    \/ \E t \in Tasks : WorkerFailedWrite(t)
    \/ \E t \in Tasks : WorkerRunningEmit(t)
    \/ \E t \in Tasks, outcome \in ZipOutcomes : ProviderReturns(t, outcome)
    \/ \E t \in Tasks, raised \in BOOLEAN : RefreshReturns(t, raised)
    \/ \E t \in Tasks : WorkerSucceededEmit(t)
    \/ \E t \in Tasks : BuildSelectImages(t)
    \/ \E t \in Tasks : BuildWrite(t)
    \/ \E t \in Tasks : WorkerInvalidate(t)
    \/ \E j \in 1..MaxJobs : DownloadJobArrive(j)
    \/ \E t \in Tasks : DownloadJobCheck(t)
    \/ DownloadAllArrive
    \/ \E t \in Tasks : DownloadAllCheck(t)
    \/ \E t \in Tasks : DownloadAllWrite(t)
    \/ \E t \in Tasks : DownloadAllServe(t)
    \/ DeleteAllArrive
    \/ \E t \in Tasks : DeleteAllUnlinkImages(t)
    \/ \E t \in Tasks : DeleteAllUnlinkZips(t)
    \/ \E t \in Tasks : Respond(t)

SpecZip == Init /\ [][NextZip]_vars


\* ------------------------------------------------------------------ claims
IsPrefix(a, b) == Len(a) <= Len(b) /\ a = SubSeq(b, 1, Len(a))

\* the events published since subscriber s registered
SinceReg(s) == SubSeq(published, regAt[s] + 1, Len(published))

\* C8: every published event is appended exactly once to the queue of every
\* subscriber registered at the moment of the publish, each subscriber receives
\* the events in publish order, and none published before it registered: what a
\* registered subscriber has been handed, followed by what waits in its queue,
\* is exactly the sequence of events published since it registered, and what
\* any subscriber was ever handed is a prefix of that sequence.
C8_DeliveryInPublishOrder ==
    \A s \in Subs :
        /\ s \in SeqToSet(event_subscribers) =>
               delivered[s] \o queues[s] = SinceReg(s)
        /\ subPc[s] # "idle" => IsPrefix(delivered[s], SinceReg(s))

\* two subscribers that registered at different moments, the later one after an
\* event it must not see, one with two events delivered and one with two queued
C8_Witness ==
    /\ Len(published) >= 3
    /\ \E s, t \in Subs :
        /\ s # t
        /\ s \in SeqToSet(event_subscribers) /\ t \in SeqToSet(event_subscribers)
        /\ regAt[s] = 0 /\ regAt[t] >= 1
        /\ Len(delivered[s]) >= 2 /\ delivered[s][1] # delivered[s][2]
        /\ Len(queues[t]) >= 2

\* the prompt queue: generated files, enqueue with the promotion it triggers,
\* remove, upload, and the clock
NextQueue ==
    \/ \E k \in ApiKeys : generated_files = <<>> /\ update_config(k)
    \/ \E f \in GenNames : (f = "a.txt" <=> generated_files = <<>>) /\ generate_prompts(f)
    \/ \E p \in GenNames : GeneratedFileLost(p)
    \/ upload_prompts_file("a.txt", 1)
    \/ \E g \in 1..MaxGenerated : Len(published) < MaxQueueEvents /\ QueueArrive(g)
    \/ \E t \in Tasks : QueueSelectExisting(t)
    \/ \E t \in Tasks : QueueInsert(t)
    \/ \E t \in Tasks : QueueRefresh(t)
    \/ \E t \in Tasks : QueueAddedEmit(t)
    \/ \E t \in Tasks : HelperSelectNext(t)
    \/ \E t \in Tasks : HelperSelectFile(t)
    \/ \E t \in Tasks : HelperCopy(t)
    \/ \E t \in Tasks : HelperOrphanEmit(t)
    \/ \E t \in Tasks : HelperComplete(t)
    \/ \E t \in Tasks : HelperEmit(t)
    \/ \E q \in 1..MaxGenerated : Len(published) < MaxQueueEvents /\ RemoveArrive(q)
    \/ \E t \in Tasks : RemoveDelete(t)
    \/ \E t \in Tasks : RemoveEmit(t)
    \/ process_next_in_queue
    \/ \E t \in Tasks : Respond(t)

SpecQueue == Init /\ [][NextQueue]_vars

\* no enqueue request is in flight
NoEnqueueInFlight ==
    \A t \in Tasks : tasks[t].op = "queue_generated_file" => tasks[t].pc = "done"

\* the prompt queue when a client sends its enqueue requests one after the
\* other, each after the one before has returned; the other requests arrive
\* at any time
NextQueueSeq ==
    \/ \E k \in ApiKeys : generated_files = <<>> /\ update_config(k)
    \/ \E f \in GenNames : (f = "a.txt" <=> generated_files = <<>>) /\ generate_prompts(f)
    \/ \E p \in GenNames : GeneratedFileLost(p)
    \/ upload_prompts_file("a.txt", 1)
    \/ \E g \in 1..MaxGenerated :
           NoEnqueueInFlight /\ Len(published) < MaxSeqEvents /\ QueueArrive(g)
    \/ \E t \in Tasks : QueueSelectExisting(t)
    \/ \E t \in Tasks : QueueInsert(t)
    \/ \E t \in Tasks : QueueRefresh(t)
    \/ \E t \in Tasks : QueueAddedEmit(t)
    \/ \E t \in Tasks : HelperSelectNext(t)
    \/ \E t \in Tasks : HelperSelectFile(t)
    \/ \E t \in Tasks : HelperCopy(t)
    \/ \E t \in Tasks : HelperOrphanEmit(t)
    \/ \E t \in Tasks : HelperComplete(t)
    \/ \E t \in Tasks : HelperEmit(t)
    \/ \E q \in 1..MaxGenerated : Len(published) < MaxSeqEvents /\ RemoveArrive(q)
    \/ \E t \in Tasks : RemoveDelete(t)
    \/ \E t \in Tasks : RemoveEmit(t)
    \/ \E t \in Tasks : Respond(t)

SpecQueueSeq == Init /\ [][NextQueueSeq]_vars

\* a step of a generation worker
WorkerStep ==
    \E t \in Tasks :
        \/ WorkerStart(t)
        \/ WorkerFailedEmit(t)
        \/ WorkerFailedWrite(t)
        \/ WorkerRunningEmit(t)
        \/ SleepDone(t)
        \/ BackoffDone(t)
        \/ \E outcome \in Outcomes : ProviderReturns(t, outcome)
        \/ \E raised \in BOOLEAN : RefreshReturns(t, raised)
        \/ WorkerSucceededEmit(t)
        \/ tasks[t].op = "job_image_generation" /\ BuildSelectImages(t)
        \/ tasks[t].op = "job_image_generation" /\ BuildWrite(t)
        \/ WorkerInvalidate(t)

\* the orchestrator and the worker with no other request: no job is canceled.
\* The event loop runs a background task whenever it can take a step, and the
\* provider answers every call and every sleep ends
NextRun ==
    \/ \E n \in 1..MaxPrompts : upload_prompts_file("a.txt", n)
    \/ \E k \in ApiKeys : jobs = <<>> /\ update_config(k)
    \/ \E f \in 1..MaxSources : create_job(f)
    \/ \E t \in Tasks : WorkerStart(t)
    \/ \E t \in Tasks : WorkerFailedEmit(t)
    \/ \E t \in Tasks : WorkerFailedWrite(t)
    \/ \E t \in Tasks : WorkerRunningEmit(t)
    \/ \E t \in Tasks : SleepDone(t)
    \/ \E t \in Tasks : BackoffDone(t)
    \/ \E t \in Tasks, outcome \in Outcomes : ProviderReturns(t, outcome)
    \/ \E t \in Tasks, raised \in BOOLEAN : RefreshReturns(t, raised)
    \/ \E t \in Tasks : WorkerSucceededEmit(t)
    \/ \E t \in Tasks : BuildSelectImages(t)
    \/ \E t \in Tasks : BuildWrite(t)
    \/ \E t \in Tasks : WorkerInvalidate(t)
    \/ \E t \in Tasks : Respond(t)

SpecRun == Init /\ [][NextRun]_vars /\ WF_vars(WorkerStep)

\* the worker with a provider that answers every call with an image, and no
\* other request; the worker's own database calls may still fail
NextOk ==
    \/ \E n \in 1..MaxPrompts : upload_prompts_file("a.txt", n)
    \/ \E k \in ApiKeys : jobs = <<>> /\ update_config(k)
    \/ \E f \in 1..MaxSources : create_job(f)
    \/ \E t \in Tasks : WorkerStart(t)
    \/ \E t \in Tasks : WorkerFailedEmit(t)
    \/ \E t \in Tasks : WorkerFailedWrite(t)
    \/ \E t \in Tasks : WorkerRunningEmit(t)
    \/ \E t \in Tasks : SleepDone(t)
    \/ \E t \in Tasks : ProviderReturns(t, "ok")
    \/ \E t \in Tasks, raised \in BOOLEAN : RefreshReturns(t, raised)
    \/ \E t \in Tasks : WorkerSucceededEmit(t)
    \/ \E t \in Tasks : BuildSelectImages(t)
    \/ \E t \in Tasks : BuildWrite(t)
    \/ \E t \in Tasks : WorkerInvalidate(t)
    \/ \E t \in Tasks : Respond(t)

SpecOk == Init /\ [][NextOk]_vars

\* the worker while the configuration is edited at any moment, before and
\* after a job is created
NextConfig ==
    \/ upload_prompts_file("a.txt", 1)
    \/ \E k \in ApiKeys : update_config(k)
    \/ \E b \in BasePrompts : update_config_base_prompt(b)
    \/ \E f \in 1..MaxSources : create_job(f)
    \/ \E t \in Tasks : WorkerStart(t)
    \/ \E t \in Tasks : WorkerFailedEmit(t)
    \/ \E t \in Tasks : WorkerFailedWrite(t)
    \/ \E t \in Tasks : WorkerRunningEmit(t)
    \/ \E t \in Tasks : BackoffDone(t)
    \/ \E t \in Tasks, outcome \in Outcomes : ProviderReturns(t, outcome)
    \/ \E t \in Tasks, raised \in BOOLEAN : RefreshReturns(t, raised)
    \/ \E t \in Tasks : WorkerSucceededEmit(t)
    \/ \E t \in Tasks : BuildSelectImages(t)
    \/ \E t \in Tasks : BuildWrite(t)
    \/ \E t \in Tasks : WorkerInvalidate(t)
    \/ \E t \in Tasks : Respond(t)

SpecConfig == Init /\ [][NextConfig]_vars

\* datetime.utcnow() moves on between two steps
Tick ==
    /\ now < MaxNow
    /\ now' = now + 1
    /\ UNCHANGED <<app_config, prompts_files, prompts_dir, jobs, images, image_files,
                   zip_files, all_jobs_zip, tasks>>
    /\ UNCHANGED <<hubVars, published, zip_inputs, queueVars>>

\* the prompt queue under concurrent enqueue requests, with a clock: entries
\* queued at different instants are pending together
NextFifo ==
    \/ \E k \in ApiKeys : generated_files = <<>> /\ update_config(k)
    \/ \E f \in GenNames : (f = "a.txt" <=> generated_files = <<>>) /\ generate_prompts(f)
    \/ \E p \in GenNames : prompt_queue # <<>> /\ GeneratedFileLost(p)
    \/ prompt_queue # <<>> /\ Tick
    \/ \E g \in 1..MaxGenerated : Len(published) < MaxFifoEvents /\ QueueArrive(g)
    \/ \E t \in Tasks : QueueSelectExisting(t)
    \/ \E t \in Tasks : QueueInsert(t)
    \/ \E t \in Tasks : QueueRefresh(t)
    \/ \E t \in Tasks : QueueAddedEmit(t)
    \/ \E t \in Tasks : HelperSelectNext(t)
    \/ \E t \in Tasks : HelperSelectFile(t)
    \/ \E t \in Tasks : HelperCopy(t)
    \/ \E t \in Tasks : HelperOrphanEmit(t)
    \/ \E t \in Tasks : HelperComplete(t)
    \/ \E t \in Tasks : HelperEmit(t)
    \/ \E t \in Tasks : Respond(t)

SpecFifo == Init /\ [][NextFifo]_vars

\* the prompt_queue rows a database file may hold at start: the status column
\* takes pending, processing and completed (database.py:104); no handler
\* writes processing, so a row in processing is one the file brought along
StoredQueues ==
    UNION {[1..n -> {"pending", "processing"}] : n \in 0..MaxStored}

StoredRow(k, status) ==
    [id |-> k, generated_file_id |-> k, status |-> status, queued_at |-> 1,
     completed_at |-> 0, prompts_file_id |-> 0]

InitStored ==
    /\ HubInit
    /\ now = 1
    /\ app_config = [k \in {"base_prompt", "api_key", "prompt_designer_template"} |->
                        CASE k = "api_key" -> ""
                          [] k = "base_prompt" -> "default style"
                          [] OTHER -> "template"]
    /\ prompts_files = <<>> /\ prompts_dir = <<>> /\ jobs = <<>> /\ images = <<>>
    /\ image_files = <<>> /\ zip_files = <<>> /\ all_jobs_zip = <<>>
    /\ tasks = [t \in Tasks |-> IdleTask]
    /\ zip_inputs = <<>> /\ generated_files = <<>> /\ generated_dir = <<>>
    /\ \E q \in StoredQueues : prompt_queue = [k \in DOMAIN q |-> StoredRow(k, q[k])]

\* removals from a stored queue, of known and unknown entries
NextRemove ==
    \/ \E q \in 1..MaxStored + 1 : RemoveArrive(q)
    \/ \E t \in Tasks : RemoveDelete(t)
    \/ \E t \in Tasks : RemoveEmit(t)
    \/ \E t \in Tasks : Respond(t)

SpecRemove == InitStored /\ [][NextRemove]_vars

\* image_generator.py:84-164: the throttle over a prompts list as long as the
\* run needs. delay and success_streak live on the service object and outlast
\* the prompt and its retry budget, so every sequence of call outcomes occurs;
\* this step is one provider call, and the wait that follows a failed one,
\* seen through the throttle fields alone. At
\* the floor the streak counts on without end and is stopped at MaxStreak
ThrottleStep(t, outcome) ==
    LET tk == tasks[t] IN
    /\ tk.op = "job_image_generation" /\ tk.pc = "call"
    /\ outcome = "ok" => tk.success_streak < MaxStreak
    /\ tasks' = [tasks EXCEPT ![t] = [Throttled(tk, outcome) EXCEPT !.wait = NoWait]]
    /\ UNCHANGED <<now, app_config, prompts_files, prompts_dir, jobs, images,
                   image_files, zip_files, all_jobs_zip>>
    /\ UNCHANGED <<hubVars, published, zip_inputs, queueVars>>

NextThrottle ==
    \/ upload_prompts_file("a.txt", 1)
    \/ \E k \in ApiKeys : jobs = <<>> /\ update_config(k)
    \/ \E f \in 1..MaxSources : create_job(f)
    \/ \E t \in Tasks : WorkerStart(t)
    \/ \E t \in Tasks : WorkerFailedEmit(t)
    \/ \E t \in Tasks : WorkerFailedWrite(t)
    \/ \E t \in Tasks : WorkerRunningEmit(t)
    \/ \E t \in Tasks, outcome \in Outcomes : ThrottleStep(t, outcome)
    \/ \E t \in Tasks : Respond(t)

SpecThrottle == Init /\ [][NextThrottle]_vars

\* the worker alone, as in NextRun, on a disk that may refuse the archive
NextFail ==
    \/ \E n \in 1..MaxPrompts : upload_prompts_file("a.txt", n)
    \/ \E k \in ApiKeys : jobs = <<>> /\ update_config(k)
    \/ \E f \in 1..MaxSources : create_job(f)
    \/ \E t \in Tasks : WorkerStart(t)
    \/ \E t \in Tasks : WorkerFailedEmit(t)
    \/ \E t \in Tasks : WorkerFailedWrite(t)
    \/ \E t \in Tasks : WorkerRunningEmit(t)
    \/ \E t \in Tasks : SleepDone(t)
    \/ \E t \in Tasks : BackoffDone(t)
    \/ \E t \in Tasks, outcome \in Outcomes : ProviderReturns(t, outcome)
    \/ \E t \in Tasks, raised \in BOOLEAN : RefreshReturns(t, raised)
    \/ \E t \in Tasks : WorkerSucceededEmit(t)
    \/ \E t \in Tasks : BuildSelectImages(t)
    \/ \E t \in Tasks : BuildWrite(t)
    \/ \E t \in Tasks : BuildRaises(t)
    \/ \E t \in Tasks : WorkerInvalidate(t)
    \/ \E t \in Tasks : Respond(t)

SpecFail == Init /\ [][NextFail]_vars

\* enqueue requests in flight together and nothing else: no entry is removed
\* and no generated file is lost, so no row of prompt_queue is ever deleted
\* and an id names one entry for good
NextPromote ==
    \/ \E k \in ApiKeys : generated_files = <<>> /\ update_config(k)
    \/ \E f \in GenNames : (f = "a.txt" <=> generated_files = <<>>) /\ generate_prompts(f)
    \/ \E g \in 1..MaxGenerated : Len(published) < MaxQueueEvents /\ QueueArrive(g)
    \/ \E t \in Tasks : QueueSelectExisting(t)
    \/ \E t \in Tasks : QueueInsert(t)
    \/ \E t \in Tasks : QueueRefresh(t)
    \/ \E t \in Tasks : QueueAddedEmit(t)
    \/ \E t \in Tasks : HelperSelectNext(t)
    \/ \E t \in Tasks : HelperSelectFile(t)
    \/ \E t \in Tasks : HelperCopy(t)
    \/ \E t \in Tasks : HelperComplete(t)
    \/ \E t \in Tasks : HelperEmit(t)
    \/ \E t \in Tasks : Respond(t)

SpecPromote == Init /\ [][NextPromote]_vars

\* a database file whose app_config table may already hold the rows of the
\* three all_jobs_zip_* keys, with empty values and no archive on disk: the
\* application only UPDATEs these rows (zip_generator.py:105-115) and inserts
\* none, so they are there only if the file came with them
InitRecorded ==
    /\ HubInit
    /\ now = 1
    /\ \E recorded \in BOOLEAN :
          app_config = [k \in {"base_prompt", "api_key", "prompt_designer_template"}
                               \cup (IF recorded THEN AllZipKeys ELSE {}) |->
                           CASE k = "api_key" -> ""
                             [] k = "base_prompt" -> "default style"
                             [] k = "prompt_designer_template" -> "template"
                             [] k = "all_jobs_zip_built_at" -> 0
                             [] OTHER -> ""]
    /\ prompts_files = <<>> /\ prompts_dir = <<>> /\ jobs = <<>> /\ images = <<>>
    /\ image_files = <<>> /\ zip_files = <<>> /\ all_jobs_zip = <<>>
    /\ tasks = [t \in Tasks |-> IdleTask]
    /\ zip_inputs = <<>> /\ generated_files = <<>> /\ generated_dir = <<>>
    /\ prompt_queue = <<>>

\* the worker and requests for the aggregate archive
NextCache ==
    \/ \E n \in 1..MaxPrompts : upload_prompts_file("a.txt", n)
    \/ \E k \in ApiKeys : jobs = <<>> /\ update_config(k)
    \/ \E f \in 1..MaxSources : create_job(f)
    \/ \E t \in Tasks : WorkerStart(t)
    \/ \E t \in Tasks : WorkerFailedEmit(t)
    \/ \E t \in Tasks : WorkerFailedWrite(t)
    \/ \E t \in Tasks : WorkerRunningEmit(t)
    \/ \E t \in Tasks : SleepDone(t)
    \/ \E t \in Tasks, outcome \in ZipOutcomes : ProviderReturns(t, outcome)
    \/ \E t \in Tasks, raised \in BOOLEAN : RefreshReturns(t, raised)
    \/ \E t \in Tasks : WorkerSucceededEmit(t)
    \/ \E t \in Tasks : BuildSelectImages(t)
    \/ \E t \in Tasks : BuildWrite(t)
    \/ \E t \in Tasks : WorkerInvalidate(t)
    \/ DownloadAllArrive
    \/ \E t \in Tasks : DownloadAllCheck(t)
    \/ \E t \in Tasks : DownloadAllWrite(t)
    \/ \E t \in Tasks : DownloadAllServe(t)
    \/ \E t \in Tasks : Respond(t)

SpecCache == InitRecorded /\ [][NextCache]_vars

\* a file under data/prompts is removed outside the application;
\* job_image_generation opens the path its record names (jobs.py:42-44)
PromptsFileLost(path) ==
    /\ path \in DOMAIN prompts_dir
    /\ prompts_dir' = [p \in DOMAIN prompts_dir \ {path} |-> prompts_dir[p]]
    /\ UNCHANGED <<now, app_config, prompts_files, jobs, images, image_files,
                   zip_files, all_jobs_zip, tasks>>
    /\ UNCHANGED <<hubVars, published, zip_inputs, queueVars>>

\* the worker alone, as in NextRun, over prompts files that may be lost
NextLost ==
    \/ \E n \in 1..MaxPrompts : upload_prompts_file("a.txt", n)
    \/ \E p \in DOMAIN prompts_dir : PromptsFileLost(p)
    \/ \E k \in ApiKeys : jobs = <<>> /\ update_config(k)
    \/ \E f \in 1..MaxSources : create_job(f)
    \/ \E t \in Tasks : WorkerStart(t)
    \/ \E t \in Tasks : WorkerFailedEmit(t)
    \/ \E t \in Tasks : WorkerFailedWrite(t)
    \/ \E t \in Tasks : WorkerRunningEmit(t)
    \/ \E t \in Tasks : SleepDone(t)
    \/ \E t \in Tasks : BackoffDone(t)
    \/ \E t \in Tasks, outcome \in Outcomes : ProviderReturns(t, outcome)
    \/ \E t \in Tasks, raised \in BOOLEAN : RefreshReturns(t, raised)
    \/ \E t \in Tasks : WorkerSucceededEmit(t)
    \/ \E t \in Tasks : BuildSelectImages(t)
    \/ \E t \in Tasks : BuildWrite(t)
    \/ \E t \in Tasks : WorkerInvalidate(t)
    \/ \E t \in Tasks : Respond(t)

\* the background task is scheduled fairly and every provider call and sleep
\* returns
SpecLost == Init /\ [][NextLost]_vars /\ WF_vars(WorkerStep)

\* ------------------------------------------------------------ job claims
JobIds == 1..Len(jobs)

\* the step taken is a step of coroutine t
Moves(t) == tasks'[t] # tasks[t]

\* the prompts of the file a job was created from
PromptsOfJob(j) == prompts_dir[prompts_files[jobs[j].prompts_file_id].path]

\* C2: once a job's status is canceled, no later step (of the generation
\* worker or of anything else) changes it.
C2_CanceledStays ==
    [][\A j \in JobIds : jobs[j].status = "canceled" => jobs'[j].status = "canceled"]_vars

\* C3: a cancel accepted for a job read as queued or running writes status
\* canceled with a non-null finished_at and publishes nothing in that step; its
\* next step publishes exactly one event, job_updated with status canceled and
\* that finish time, and answers 200.
C3_CancelSetsCanceled ==
    [][\A t \in Tasks :
          (tasks[t].op = "cancel_job" /\ Moves(t)) =>
              /\ (tasks[t].pc = "cancel_check" /\ tasks[t].seen \in {"queued", "running"}) =>
                     /\ jobs'[tasks[t].job].status = "canceled"
                     /\ jobs'[tasks[t].job].finished_at # 0
                     /\ published' = published
                     /\ tasks'[t].pc = "cancel_emit"
              /\ tasks[t].pc = "cancel_emit" =>
                     /\ published' = Append(published,
                            [type |-> "job_updated", job_id |-> tasks[t].job,
                             status |-> "canceled",
                             finished_at |-> jobs[tasks[t].job].finished_at])
                     /\ jobs[tasks[t].job].finished_at # 0
                     /\ jobs' = jobs
                     /\ tasks'[t].pc = "done" /\ tasks'[t].response = "200"]_vars

C3_Witness ==
    \E t \in Tasks :
        /\ tasks[t].op = "cancel_job" /\ tasks[t].response = "200"
        /\ jobs[tasks[t].job].status = "canceled"
        /\ jobs[tasks[t].job].finished_at # 0
        /\ published # <<>>
        /\ published[Len(published)].type = "job_updated"
        /\ published[Len(published)].status = "canceled"

\* C4: a cancel for a job read as succeeded, failed or canceled answers 400 in
\* one step that leaves the jobs table (status and finished_at included)
\* unchanged and publishes no event.
C4_CancelRejected ==
    [][\A t \in Tasks :
          (/\ tasks[t].op = "cancel_job" /\ tasks[t].pc = "cancel_check"
           /\ tasks[t].seen \in {"succeeded", "failed", "canceled"}
           /\ Moves(t)) =>
              /\ tasks'[t].pc = "done" /\ tasks'[t].response = "400"
              /\ jobs' = jobs
              /\ published' = published]_vars

C4_Witness ==
    \E t \in Tasks :
        /\ tasks[t].op = "cancel_job" /\ tasks[t].response = "400"
        /\ jobs[tasks[t].job].status = "succeeded"
        /\ jobs[tasks[t].job].finished_at # 0

\* C5: a job never has more image records than its prompt list has prompts.
C5_ImagesAtMostPrompts ==
    \A j \in JobIds : Len(ImagesOf(j)) <= Len(PromptsOfJob(j))

\* C6: every image record added carries as its 3-digit prefix the 1-based index
\* of the prompt the worker is at, a prefix no earlier image of the job has and
\* greater than each of theirs.
C6_PrefixIsIndexAndIncreasing ==
    [][Len(images') = Len(images) + 1 =>
          LET im == images'[Len(images')]
              earlier == ImagesOf(im.job_id)
          IN /\ \E t \in Tasks :
                    /\ tasks[t].op = "job_image_generation" /\ tasks[t].job = im.job_id
                    /\ im.path.prefix = Zfill3(tasks[t].i)
                    /\ im.prompt_text = tasks[t].prompts[tasks[t].i]
             /\ \A k \in DOMAIN earlier :
                    /\ earlier[k].path.prefix # im.path.prefix
                    /\ \E a, b \in 1..999 :
                           /\ earlier[k].path.prefix = Zfill3(a)
                           /\ im.path.prefix = Zfill3(b)
                           /\ a < b]_vars

\* ------------------------------------------------------------ archive claims
\* C9: the step that ends delete-all-images leaves no aggregate archive file and
\* none of its recorded metadata keys.
C9_DeleteAllDropsAggregate ==
    [][\A t \in Tasks :
          (tasks[t].op = "delete_all_images" /\ tasks[t].pc # "done"
           /\ tasks'[t].pc = "done") =>
              /\ all_jobs_zip' = <<>>
              /\ AllZipKeys \cap DOMAIN app_config' = {}]_vars

\* a build step of coroutine t that writes an archive for a job whose last
\* recorded build read the same image records and the same image files
IsRebuildOfSameInputs(t) ==
    /\ tasks[t].pc = "zip_write" /\ tasks[t].read # <<>> /\ Moves(t)
    /\ jobs[tasks[t].job].zip_path # 0
    /\ tasks[t].job \in DOMAIN zip_inputs
    /\ zip_inputs[tasks[t].job] = BuildInputs(tasks[t].read, image_files)

\* C10: building a job's archive again from unchanged image records and files
\* writes the same content at the same path and records the same zip_sha256 and
\* zip_size_bytes as the build before.
C10_BuildIdempotent ==
    [][\A t \in Tasks :
          IsRebuildOfSameInputs(t) =>
              LET j == tasks[t].job IN
              /\ Sha256(zip_files'[j]) = jobs[j].zip_sha256
              /\ ZipSize(zip_files'[j]) = jobs[j].zip_size_bytes
              /\ jobs'[j].zip_sha256 = jobs[j].zip_sha256
              /\ jobs'[j].zip_size_bytes = jobs[j].zip_size_bytes
              /\ jobs'[j].zip_path = jobs[j].zip_path
              /\ DOMAIN zip_files' = DOMAIN zip_files \cup {j}]_vars

\* a second build has been recorded over a first one of the same inputs: two
\* coroutines built the archive of one job, and the later one has finished
C10_Witness ==
    \E t \in Tasks :
        /\ tasks[t].op = "download_job_zip" /\ tasks[t].response = "200 built"
        /\ tasks[t].job \in DOMAIN zip_files
        /\ zip_files[tasks[t].job] # <<>>
        /\ \E u \in Tasks : tasks[u].op = "job_image_generation"
                            /\ tasks[u].job = tasks[t].job
                            /\ tasks[u].pc = "invalidate"

\* ------------------------------------------------------------ queue claims
ProcessingFiles ==
    {k \in DOMAIN prompts_files : prompts_files[k].status = "processing"}

\* C1: at most one prompts file has status processing, whatever the
\* interleaving of enqueue, promotion, remove and upload.
C1_AtMostOneProcessing == Cardinality(ProcessingFiles) <= 1

\* two promotions and an upload have stored their prompts files, and a queue
\* entry is completed
C1_Witness ==
    /\ Len(prompts_files) >= 3
    /\ \E k \in DOMAIN prompt_queue : prompt_queue[k].status = "completed"
    /\ \E k, m \in DOMAIN prompts_files :
           k # m /\ prompts_files[k].filename = prompts_files[m].filename

\* the rows of the queue table that name a generated file
EntriesOf(g) == {k \in DOMAIN prompt_queue : prompt_queue[k].generated_file_id = g}

\* C7: with enqueue calls made one after the other, an enqueue that reaches its
\* insert step while the queue holds an entry of its generated file adds no
\* entry and answers already_queued with that entry's id; and the queue never
\* holds two entries of one generated file.
C7_SequentialEnqueueNoDuplicate ==
    /\ [](\A g \in 1..MaxGenerated : Cardinality(EntriesOf(g)) <= 1)
    /\ [][\A t \in Tasks :
             (/\ tasks[t].op = "queue_generated_file" /\ tasks[t].pc = "q_insert"
              /\ EntriesOf(tasks[t].param) # {}
              /\ Moves(t)) =>
                 /\ prompt_queue' = prompt_queue
                 /\ tasks'[t].response = "200 already_queued"
                 /\ \E k \in EntriesOf(tasks[t].param) :
                        tasks'[t].queue_item[1].id = prompt_queue[k].id]_vars

C7_Witness ==
    \E t \in Tasks :
        /\ tasks[t].op = "queue_generated_file"
        /\ tasks[t].response = "200 already_queued"
        /\ \E k \in EntriesOf(tasks[t].param) :
               prompt_queue[k].id = tasks[t].queue_item[1].id
        /\ Cardinality(EntriesOf(tasks[t].param)) = 1

\* ------------------------------------------------------------ claims C11..C20
HasArchiveMetadata(j) ==
    \/ jobs[j].zip_path # 0
    \/ jobs[j].zip_size_bytes # 0
    \/ jobs[j].zip_sha256 # NullSha
    \/ jobs[j].zip_built_at # 0

\* C11: a job has archive metadata only if its status is succeeded and the
\* file at its zip_path exists.
C11_MetadataOnlyWhenSucceededAndOnDisk ==
    \A j \in JobIds :
        HasArchiveMetadata(j) =>
            /\ jobs[j].status = "succeeded"
            /\ jobs[j].zip_path \in DOMAIN zip_files

\* coroutine t is the generation worker of job j
IsWorkerOf(t, j) == tasks[t].op = "job_image_generation" /\ tasks[t].job = j

\* C12: a job whose snapshot holds an empty API key never has status running,
\* its worker never reaches a provider call and no image record of it exists;
\* the worker's first step writes failed and its last step leaves finished_at
\* set.
C12_EmptyCredentialFails ==
    /\ [](\A j \in JobIds :
            jobs[j].config_snapshot["api_key"] = "" =>
                /\ jobs[j].status # "running"
                /\ ImagesOf(j) = <<>>
                /\ \A t \in Tasks :
                       IsWorkerOf(t, j) =>
                           tasks[t].pc \in {"start", "failed_emit", "failed_write", "done"})
    /\ [][\A t \in Tasks, j \in JobIds :
             (IsWorkerOf(t, j) /\ Moves(t) /\ jobs[j].config_snapshot["api_key"] = "") =>
                 /\ tasks[t].pc = "start" =>
                        jobs'[j].status = "failed" /\ tasks'[t].pc = "failed_emit"
                 /\ tasks[t].pc = "failed_write" =>
                        /\ jobs'[j].finished_at # 0
                        /\ tasks'[t].pc = "done" /\ tasks'[t].response = "failed"]_vars

C12_Witness ==
    \E t \in Tasks, j \in JobIds :
        /\ IsWorkerOf(t, j) /\ tasks[t].pc = "done" /\ tasks[t].response = "failed"
        /\ jobs[j].config_snapshot["api_key"] = ""
        /\ jobs[j].status = "failed" /\ jobs[j].finished_at # 0
        /\ ImagesOf(j) = <<>>

\* the worker is leaving its current prompt: the throttle sleep before the next
\* one, or the succeeded write after the last one
LeftPrompt(a, b) ==
    \/ b.pc = "sleep" /\ b.i = a.i + 1
    \/ b.pc = "succeeded_emit" /\ b.i = a.i

\* C13: a provider call is in flight only after fewer than 3 failed attempts of
\* the current prompt; every provider call that fails, and every failure after
\* it in the same attempt, counts one attempt; the third failed attempt leaves
\* the prompt for the next one, an earlier one calls the provider again for the
\* same prompt, and a successful attempt leaves the prompt.
C13_AtMostThreeAttempts ==
    /\ [](\A t \in Tasks :
            (tasks[t].op = "job_image_generation"
             /\ tasks[t].pc \in {"call", "backoff", "refresh"}) =>
                tasks[t].retry_count < 3)
    /\ [][\A t \in Tasks :
             (tasks[t].op = "job_image_generation" /\ Moves(t)
              /\ tasks[t].pc \in {"call", "backoff", "refresh"}) =>
                 LET a == tasks[t]
                     b == tasks'[t]
                     failed == b.retry_count = a.retry_count + 1
                 IN
                 /\ a.pc = "call" => (failed \/ b.pc \in {"backoff", "refresh"})
                 /\ b.pc \in {"backoff", "refresh"} =>
                        b.retry_count = a.retry_count /\ b.i = a.i
                 /\ a.pc = "backoff" => failed
                 /\ a.pc = "refresh" => (failed \/ LeftPrompt(a, b))
                 /\ failed =>
                        IF b.retry_count = 3 THEN LeftPrompt(a, b)
                        ELSE b.pc = "call" /\ b.i = a.i]_vars

\* the first prompt was given up after three failed attempts, none of which
\* stored an image, and the worker is on its way to the second
C13_Witness ==
    \E t \in Tasks :
        /\ tasks[t].op = "job_image_generation"
        /\ tasks[t].pc = "sleep" /\ tasks[t].i = 2 /\ tasks[t].retry_count = 3
        /\ ImagesOf(tasks[t].job) = <<>>

\* the job exists and its snapshot holds a non-empty API key
HasCredential(j) == JobExists(j) /\ jobs[j].config_snapshot["api_key"] # ""

\* C14: with no cancellation, a job whose snapshot holds a non-empty API key
\* never has status failed, whatever the provider answers, and it ends
\* succeeded with finished_at set.
C14_FailedPromptsNeverFailJob ==
    /\ [](\A j \in JobIds : HasCredential(j) => jobs[j].status # "failed")
    /\ \A j \in 1..MaxJobs :
           HasCredential(j) ~>
               (/\ JobExists(j)
                /\ jobs[j].status = "succeeded" /\ jobs[j].finished_at # 0)

\* every prompt of a job was skipped: it is succeeded without any image, and
\* its worker has ended
C14_Witness ==
    \E t \in Tasks, j \in JobIds :
        /\ IsWorkerOf(t, j) /\ tasks[t].pc = "done"
        /\ HasCredential(j)
        /\ Len(PromptsOfJob(j)) = 2
        /\ jobs[j].status = "succeeded" /\ jobs[j].finished_at # 0
        /\ ImagesOf(j) = <<>>

\* C15: when the API key is non-empty and every provider call succeeds, a job
\* over N >= 1 prompts whose worker has ended is succeeded, has exactly N image
\* records, and its archive holds exactly N entries and is recorded on the job.
C15_AllSucceedGivesNImages ==
    \A t \in Tasks, j \in JobIds :
        IsWorkerOf(t, j) /\ tasks[t].pc = "done" /\ HasCredential(j) =>
            /\ jobs[j].status = "succeeded"
            /\ Len(ImagesOf(j)) = Len(PromptsOfJob(j))
            /\ j \in DOMAIN zip_files
            /\ Len(zip_files[j]) = Len(PromptsOfJob(j))
            /\ jobs[j].zip_path = j
            /\ jobs[j].zip_size_bytes = ZipSize(zip_files[j])
            /\ jobs[j].zip_sha256 = Sha256(zip_files[j])
            /\ jobs[j].zip_built_at # 0

\* the configuration a new job is to carry: the style prefix and the API key
\* of the store
StoreConfig ==
    [k \in {"base_prompt", "api_key"} \cap DOMAIN app_config |-> app_config[k]]

\* the worker of the task has taken its configuration
HasTakenConfig(t) ==
    /\ tasks[t].op = "job_image_generation"
    /\ tasks[t].pc \notin {"start", "done"}

\* C16: a job's config_snapshot is the store's style prefix and API key at
\* the moment create_job runs, no later step changes it (an update_config
\* changes neither the jobs nor any task), and the style prefix and the API
\* key the worker runs with are those of the snapshot.
C16_SnapshotIsolatesJob ==
    /\ [](\A t \in Tasks : HasTakenConfig(t) =>
              /\ tasks[t].api_key = jobs[tasks[t].job].config_snapshot["api_key"]
              /\ tasks[t].base_prompt = jobs[tasks[t].job].config_snapshot["base_prompt"])
    /\ [][/\ \A j \in JobIds : jobs'[j].config_snapshot = jobs[j].config_snapshot
          /\ \A j \in DOMAIN jobs' \ DOMAIN jobs :
                 jobs'[j].config_snapshot = StoreConfig
          /\ StoreConfig' # StoreConfig => jobs' = jobs /\ tasks' = tasks]_vars

\* a worker runs with the snapshot's values after both the style prefix and
\* the API key of the store were changed
C16_Witness ==
    \E t \in Tasks :
        /\ HasTakenConfig(t) /\ tasks[t].pc = "refresh"
        /\ tasks[t].api_key = "sk-1" /\ app_config["api_key"] = ""
        /\ tasks[t].base_prompt = "default style"
        /\ app_config["base_prompt"] = "flat style"
        /\ jobs[tasks[t].job].config_snapshot["api_key"] = "sk-1"
        /\ jobs[tasks[t].job].config_snapshot["base_prompt"] = "default style"

\* a pending entry was queued strictly before the entry
EarlierPending(item) ==
    \E k \in DOMAIN prompt_queue :
        /\ prompt_queue[k].status = "pending"
        /\ prompt_queue[k].queued_at < item.queued_at

\* the helper of the task moves from one of the places to one of the others
HelperMoves(t, from, to) ==
    /\ tasks[t].op = "queue_generated_file"
    /\ tasks[t].pc \in from /\ tasks'[t].pc \in to

OthersUnchanged(id) ==
    /\ {r \in {prompt_queue[k] : k \in DOMAIN prompt_queue} : r.id # id}
         = {r \in {prompt_queue'[k] : k \in DOMAIN prompt_queue'} : r.id # id}

\* the entry is completed and linked to the prompts file
CompletedWith(rows, id, pf) ==
    /\ RowById(rows, id) # <<>>
    /\ RowById(rows, id)[1].status = "completed"
    /\ RowById(rows, id)[1].completed_at # 0
    /\ RowById(rows, id)[1].prompts_file_id = pf.id

\* C18: a promotion that found the oldest pending entry with its generated
\* file adds exactly one prompts file, in status pending; it then turns that
\* pending entry into a completed one with completed_at set and linked to the
\* new prompts file, changing no other entry; and the entry is so when the
\* promotion returns.
C18_PromotionEffects ==
    [][\A t \in Tasks :
          /\ HelperMoves(t, {"h_copy"}, {"h_complete"}) =>
                 /\ Len(prompts_files') = Len(prompts_files) + 1
                 /\ prompts_files'[Len(prompts_files')] = tasks'[t].prompts_file[1]
                 /\ tasks'[t].prompts_file[1].status = "pending"
                 /\ prompt_queue' = prompt_queue
          /\ HelperMoves(t, {"h_complete"}, {"h_emit", "done"}) =>
                 /\ RowById(prompt_queue, tasks[t].queue_item[1].id) # <<>>
                 /\ RowById(prompt_queue, tasks[t].queue_item[1].id)[1].status = "pending"
                 /\ tasks'[t].pc = "h_emit"
                 /\ CompletedWith(prompt_queue', tasks[t].queue_item[1].id,
                                  tasks[t].prompts_file[1])
                 /\ OthersUnchanged(tasks[t].queue_item[1].id)
                 /\ prompts_files' = prompts_files
          /\ HelperMoves(t, {"h_emit"}, {"done"}) =>
                 CompletedWith(prompt_queue, tasks[t].queue_item[1].id,
                               tasks[t].prompts_file[1])]_vars

\* the two events of a promotion, in the order of publication
PromotionEvents(id, pf) ==
    <<[type |-> "prompt_queue_updated", action |-> "completed", queue_id |-> id,
       prompts_file_id |-> pf.id],
      [type |-> "prompts_file_added", prompts_file_id |-> pf.id,
       filename |-> pf.filename]>>

\* no prompts file is in processing, and the oldest pending entry has its
\* generated file record and its file
Promotable ==
    /\ ProcessingFiles = {}
    /\ OldestPending # <<>>
    /\ RowById(generated_files, OldestPending[1].generated_file_id) # <<>>
    /\ RowById(generated_files, OldestPending[1].generated_file_id)[1].path
           \in DOMAIN generated_dir

\* a manual process-next request is answered in this step
ManualProcessNext ==
    \E t \in Tasks :
        /\ tasks[t].op # "process_next_in_queue"
        /\ tasks'[t].op = "process_next_in_queue" /\ tasks'[t].pc = "done"

\* the promotion triggered by an enqueue publishes, once the entry is
\* recorded as completed, the completed event and then the added event, and
\* nothing else
EnqueuePromotionPublishes ==
    \A t \in Tasks :
        HelperMoves(t, {"h_emit"}, {"done"}) =>
            /\ published' = published \o PromotionEvents(tasks[t].queue_item[1].id,
                                                           tasks[t].prompts_file[1])
            /\ tasks[t].prompts_file[1].id \in {prompts_files[k].id : k \in DOMAIN prompts_files}

\* the manual operation promotes the oldest pending entry when it can, and
\* publishes the same two events once the entry is recorded as completed
ManualPromotionPublishes ==
    ManualProcessNext /\ Promotable =>
        \E k \in DOMAIN prompt_queue' :
            /\ prompt_queue'[k].id = OldestPending[1].id
            /\ prompt_queue'[k].status = "completed"
            /\ \E pf \in {prompts_files'[m] : m \in DOMAIN prompts_files'} :
                   /\ prompt_queue'[k].prompts_file_id = pf.id
                   /\ published' = published \o PromotionEvents(prompt_queue'[k].id, pf)

\* C19: every successful promotion, triggered by an enqueue or by the manual
\* process-next operation, publishes exactly two events after the entry was
\* recorded as completed: prompt_queue_updated with action completed, then
\* prompts_file_added.
C19_PromotionPublishesTwoEvents ==
    [][EnqueuePromotionPublishes /\ ManualPromotionPublishes]_vars

\* the oldest pending entry lacks its generated file record or its file
Orphaned ==
    /\ OldestPending # <<>>
    /\ \/ RowById(generated_files, OldestPending[1].generated_file_id) = <<>>
       \/ RowById(generated_files, OldestPending[1].generated_file_id)[1].path
              \notin DOMAIN generated_dir

RemovedEvent(id) ==
    <<[type |-> "prompt_queue_updated", action |-> "removed", queue_id |-> id]>>

\* the promotion triggered by an enqueue, on an orphaned entry: that entry
\* alone leaves the queue, then its removal event is published and the call
\* ends, with no prompts file created and no entry promoted
EnqueueOrphanRemoved ==
    \A t \in Tasks :
        /\ HelperMoves(t, {"h_copy"}, {"h_orphan"}) =>
               /\ RowById(prompt_queue', tasks[t].queue_item[1].id) = <<>>
               /\ OthersUnchanged(tasks[t].queue_item[1].id)
               /\ prompts_files' = prompts_files /\ prompts_dir' = prompts_dir
        /\ tasks[t].op = "queue_generated_file" /\ tasks[t].pc = "h_orphan"
           /\ tasks'[t] # tasks[t] =>
               /\ tasks'[t].pc = "done"
               /\ published' = published \o RemovedEvent(tasks[t].queue_item[1].id)
               /\ prompt_queue' = prompt_queue
               /\ prompts_files' = prompts_files /\ prompts_dir' = prompts_dir

\* the manual operation on an orphaned entry: the same removal and event
ManualOrphanRemoved ==
    ManualProcessNext /\ Orphaned =>
        /\ RowById(prompt_queue', OldestPending[1].id) = <<>>
        /\ OthersUnchanged(OldestPending[1].id)
        /\ published' = published \o RemovedEvent(OldestPending[1].id)
        /\ prompts_files' = prompts_files

\* C20: when the oldest pending entry's generated file record or file is
\* missing, the promotion, triggered by an enqueue or manual, deletes exactly
\* that entry, publishes its removal event and ends without creating a
\* prompts file and without promoting another entry.
C20_OrphanRemoved == [][EnqueueOrphanRemoved /\ ManualOrphanRemoved]_vars

\* --------------------------------------------------------- claims C21..C30
\* the removal of the task decides in this step
RemoveDecides(t) ==
    /\ tasks[t].op = "remove_from_prompt_queue" /\ tasks[t].pc = "r_delete"
    /\ tasks'[t] # tasks[t]

\* the step refuses the removal with the code and changes nothing else
Refused(t, code) ==
    /\ tasks'[t].pc = "done" /\ tasks'[t].response = code
    /\ prompt_queue' = prompt_queue
    /\ published' = published /\ queues' = queues

\* C21: removing an entry whose status is processing is refused with 400,
\* leaves the queue as it was and publishes nothing, and no step ever takes
\* an entry in processing out of the queue; removing an unknown id is refused
\* with 404 and changes nothing.
C21_RemoveRefused ==
    [][/\ \A t \in Tasks : RemoveDecides(t) =>
              /\ tasks[t].queue_item = <<>> => Refused(t, "404")
              /\ tasks[t].queue_item # <<>> /\ tasks[t].queue_item[1].status = "processing"
                     => Refused(t, "400")
       /\ \A k \in DOMAIN prompt_queue : prompt_queue[k].status = "processing" =>
              \E m \in DOMAIN prompt_queue' : prompt_queue'[m] = prompt_queue[k]]_vars

\* one removal was refused for an entry in processing, which is still queued,
\* and another for an unknown id
C21_Witness ==
    \E t, u \in Tasks :
        /\ tasks[t].op = "remove_from_prompt_queue" /\ tasks[t].response = "400"
        /\ RowById(prompt_queue, tasks[t].param) # <<>>
        /\ RowById(prompt_queue, tasks[t].param)[1].status = "processing"
        /\ tasks[u].op = "remove_from_prompt_queue" /\ tasks[u].response = "404"
        /\ RowById(prompt_queue, tasks[u].param) = <<>>
        /\ published = <<>>

\* the enqueue of the task returns in this step the entry its file already has
ReturnsAlreadyQueued(t) ==
    /\ tasks[t].op = "queue_generated_file" /\ tasks[t].pc = "q_insert"
    /\ tasks'[t].pc = "done" /\ tasks'[t].response = "200 already_queued"

\* C22: when an enqueue for a file that already has an entry returns while no
\* prompts file is in processing and the oldest pending entry has its record
\* and its file, that entry has been promoted: it is completed.
C22_AlreadyQueuedStillPromotes ==
    [][\A t \in Tasks : ReturnsAlreadyQueued(t) /\ Promotable =>
          /\ RowById(prompt_queue', OldestPending[1].id) # <<>>
          /\ RowById(prompt_queue', OldestPending[1].id)[1].status = "completed"]_vars

\* build_job_zip of the task takes a step
BuildSteps(t) ==
    /\ tasks[t].pc \in {"zip_images", "zip_write"}
    /\ tasks'[t] # tasks[t]

\* the job is missing, is not succeeded, or has no image record
NothingToBuild(j) ==
    \/ ~JobExists(j)
    \/ JobById(j).status # "succeeded"
    \/ ImagesOf(j) = <<>>

\* C23: a step of build_job_zip for a job that does not exist, whose status
\* is not succeeded, or that has no image record writes no archive and leaves
\* the four zip_* fields of every job as they were.
C23_NoBuildChangesNothing ==
    [][\A t \in Tasks : BuildSteps(t) /\ NothingToBuild(tasks[t].job) =>
          /\ zip_files' = zip_files
          /\ \A j \in JobIds :
                 /\ jobs'[j].zip_path = jobs[j].zip_path
                 /\ jobs'[j].zip_size_bytes = jobs[j].zip_size_bytes
                 /\ jobs'[j].zip_sha256 = jobs[j].zip_sha256
                 /\ jobs'[j].zip_built_at = jobs[j].zip_built_at]_vars

\* the config store names the aggregate archive on disk and its hash
AggregateRecorded(cfg, zip) ==
    /\ zip # <<>>
    /\ HasKey(cfg, "all_jobs_zip_path") /\ cfg["all_jobs_zip_path"] = "all_jobs.zip"
    /\ HasKey(cfg, "all_jobs_zip_sha256") /\ cfg["all_jobs_zip_sha256"] = Sha256(zip[1])

\* C24: build_all_jobs_zip returns none and writes neither file nor config key
\* when it read no image record; otherwise, when it has written all_jobs.zip,
\* the config store holds all_jobs_zip_path and all_jobs_zip_sha256 of that
\* file, on a first build and on a build after an invalidation alike.
C24_AggregateRecorded ==
    [][\A t \in Tasks :
          tasks[t].op = "download_all_zip" /\ tasks[t].pc = "all_write"
          /\ tasks'[t] # tasks[t] =>
              IF tasks[t].read = <<>>
              THEN /\ all_jobs_zip' = all_jobs_zip /\ app_config' = app_config
                   /\ tasks'[t].response = "404"
              ELSE AggregateRecorded(app_config', all_jobs_zip')]_vars

\* C25: a publish never has to wait, however many events a subscriber has
\* left unconsumed: no registered queue is ever full, and the step that
\* publishes events puts them, in that step, on the queue of every registered
\* subscriber, whatever the other queues hold.
C25_PublishNeverWaits ==
    /\ []NoPutWaits
    /\ [][published' # published =>
            LET evs == SubSeq(published', Len(published) + 1, Len(published')) IN
            /\ published' = published \o evs
            /\ \A s \in SeqToSet(event_subscribers) :
                   queues'[s] = queues[s] \o evs]_vars

\* one subscriber has consumed nothing of three events while another has
\* been delivered all three
C25_Witness ==
    \E s, u \in Subs :
        /\ s # u
        /\ Len(queues[s]) = 3 /\ delivered[s] = <<>>
        /\ Len(delivered[u]) = 3 /\ delivered[u] = published

\* the subscriber's generator is still consuming
Consuming(s) == subPc[s] \in {"get", "yield"}

\* C26: the registry holds exactly the queues of the subscribers that are
\* still consuming, each once: a subscriber whose generator has ended, by
\* cancellation or by being closed, is not registered, and a publish puts
\* nothing on its queue.
C26_EndedDeregistered ==
    /\ [](\A s \in Subs : s \in SeqToSet(event_subscribers) <=> Consuming(s))
    /\ [][\A s \in Subs : subPc[s] = "ended" => queues'[s] = queues[s]]_vars

\* the worker of the task begins the loop iteration of its next prompt and
\* issues that prompt's first provider call
CallsNextPrompt(t) ==
    /\ tasks[t].op = "job_image_generation"
    /\ tasks[t].pc = "sleep" /\ tasks'[t].pc = "call"

\* C27: a worker whose job was canceled while it was running issues no
\* provider call for a later prompt: when it begins the next prompt's
\* iteration the job is not canceled.
C27_NoCallAfterCancel ==
    [][\A t \in Tasks :
          CallsNextPrompt(t) => jobs[tasks[t].job].status # "canceled"]_vars

\* the worker of the task holds a throttle: its service object is constructed
\* and its run has not ended
Throttling(t) ==
    /\ tasks[t].op = "job_image_generation"
    /\ tasks[t].pc \notin {"start", "done"}

\* C28: throughout a worker run the throttle delay starts at InitialDelay
\* (5.0 s) and stays within [MinDelay, MaxDelay] = [2.0 s, 120.0 s] after any
\* sequence of successes, rate-limit errors with or without a retry-after
\* hint, provider errors and other exceptions.
C28_DelayWithinBounds ==
    /\ [](\A t \in Tasks :
            Throttling(t) => /\ MinDelay <= tasks[t].delay
                             /\ tasks[t].delay <= MaxDelay)
    /\ [][\A t \in Tasks :
             (~Throttling(t) /\ Throttling(t)') => tasks'[t].delay = InitialDelay]_vars

\* a delay shrunk onto the floor: the last reduction was clamped at MinDelay
C28_Witness ==
    \E t \in Tasks :
        /\ Throttling(t) /\ tasks[t].pc = "call"
        /\ tasks[t].delay = MinDelay /\ tasks[t].success_streak = 0
        /\ tasks[t].ok_run = 0

\* the provider call of the task raises RateLimitError in this step
RateLimited(t) ==
    /\ tasks[t].op = "job_image_generation" /\ tasks[t].pc = "call"
    /\ tasks'[t].pc = "backoff"
    /\ tasks'[t].seen \in {"rate_limit_hint", "rate_limit"}

\* the wait of the rate-limit handler of the task ends in this step
RateLimitWaitEnds(t) ==
    /\ tasks[t].op = "job_image_generation" /\ tasks[t].pc = "backoff"
    /\ tasks[t].seen \in {"rate_limit_hint", "rate_limit"}
    /\ tasks'[t].pc # "backoff"

\* the next provider call of the task is for the prompt it was on
SamePromptRetried(t) ==
    /\ tasks'[t].pc = "call"
    /\ tasks'[t].i = tasks[t].i
    /\ tasks'[t].job = tasks[t].job

\* what a rate-limit error does to the throttle: streak 0; with a hint the
\* wait is the jittered hint and the delay stays, without one the delay
\* becomes min(MaxDelay, 2 * delay) and the wait is the jittered new delay
RateLimitThrottle(t) ==
    LET a == tasks[t]
        b == tasks'[t]
        doubled == IF 2 * a.delay > MaxDelay THEN MaxDelay ELSE 2 * a.delay
    IN
    /\ b.success_streak = 0
    /\ b.seen = "rate_limit_hint" =>
           /\ b.delay = a.delay
           /\ b.wait = [lo |-> (RetryAfter * 9) \div 10, hi |-> (RetryAfter * 11) \div 10]
    /\ b.seen = "rate_limit" =>
           /\ b.delay = doubled
           /\ b.wait = [lo |-> (doubled * 9) \div 10, hi |-> (doubled * 11) \div 10]

\* C29 as stated: on a rate-limit error the success streak is reset to 0 and
\* the same prompt is retried; with a retry-after hint the wait is derived
\* from the hint and the delay is left unchanged, otherwise the delay becomes
\* min(MaxDelay, 2 * delay) and the wait is derived from the new delay.
C29_RateLimitAlwaysRetries ==
    [][\A t \in Tasks :
          /\ RateLimited(t) => RateLimitThrottle(t)
          /\ RateLimitWaitEnds(t) => SamePromptRetried(t)]_vars

\* C29 amended: on a rate-limit error the success streak is reset to 0 and
\* the failed call counts as an attempt; the same prompt is retried when
\* fewer than MaxRetries attempts of it have failed, and after the third
\* failed attempt no further call is made for it; with a retry-after hint the
\* wait is derived from the hint and the delay is left unchanged, otherwise
\* the delay becomes min(MaxDelay, 2 * delay) and the wait is derived from
\* the new delay.
C29_RateLimitRetriesWithinBudget ==
    [][\A t \in Tasks :
          /\ RateLimited(t) => RateLimitThrottle(t)
          /\ RateLimitWaitEnds(t) =>
                /\ tasks'[t].retry_count = tasks[t].retry_count + 1
                /\ tasks[t].retry_count + 1 < MaxRetries => SamePromptRetried(t)
                /\ tasks[t].retry_count + 1 >= MaxRetries =>
                      ~SamePromptRetried(t)]_vars

\* a second attempt of a prompt ended in a rate-limit error without a hint:
\* the delay has doubled twice and the worker sleeps the jittered new delay
C29_Witness ==
    \E t \in Tasks :
        /\ tasks[t].op = "job_image_generation" /\ tasks[t].pc = "backoff"
        /\ tasks[t].seen = "rate_limit" /\ tasks[t].retry_count = 1
        /\ tasks[t].delay = 4 * InitialDelay
        /\ tasks[t].wait = [lo |-> (36 * InitialDelay) \div 10,
                             hi |-> (44 * InitialDelay) \div 10]
        /\ tasks[t].success_streak = 0

\* the delay of the task's worker is reduced in this step
DelayReduced(t) ==
    /\ Throttling(t) /\ tasks[t].pc = "call"
    /\ tasks'[t].delay < tasks[t].delay

\* C30: the delay is multiplied by 0.9, never going below MinDelay, only when
\* the streak reaches StreakLimit consecutive successes, that is at the fifth
\* of 5 successful provider calls with no failed call of any kind (rate
\* limit, provider error or other exception) between them, and the streak is
\* reset to 0 at each such reduction.
C30_ReductionNeedsFiveCleanSuccesses ==
    [][\A t \in Tasks :
          DelayReduced(t) =>
              /\ tasks[t].ok_run + 1 = StreakLimit
              /\ tasks'[t].delay = (IF (tasks[t].delay * 9) \div 10 < MinDelay
                                     THEN MinDelay
                                     ELSE (tasks[t].delay * 9) \div 10)
              /\ tasks'[t].success_streak = 0]_vars

\* --- claims C31..C40

\* the worker of the task issues a provider call at the end of this step
IssuesCall(t) ==
    /\ tasks[t].op = "job_image_generation" /\ tasks'[t].op = "job_image_generation"
    /\ tasks'[t].pc = "call"
    /\ tasks'[t] # tasks[t]

\* C31: within one worker run a sleep occurs between any two consecutive
\* provider calls: every provider call except the first of the job is issued
\* at the end of a wait, the inter-prompt delay or a retry backoff, also the
\* retry that follows an exception of no classified kind.
C31_SleepBetweenCalls ==
    [][\A t \in Tasks :
          IssuesCall(t) => tasks[t].pc \in {"running_emit", "sleep", "backoff"}]_vars

\* C38: once a job's status is succeeded it never changes again: no later
\* step of the background task (archive build, aggregate invalidation, or
\* their failure) and no cancel moves a succeeded job to another status.
C38_SucceededIsFinal ==
    [][\A j \in JobIds :
          (JobExists(j) /\ JobById(j).status = "succeeded") =>
              (JobExists(j)' /\ JobById(j)'.status = "succeeded")]_vars

\* the job_updated events of job j, in the order they were published
RECURSIVE StatusEvents(_, _)
StatusEvents(evs, j) ==
    IF evs = <<>> THEN <<>>
    ELSE (IF Head(evs).type = "job_updated" /\ Head(evs).job_id = j
          THEN <<Head(evs).status>> ELSE <<>>) \o StatusEvents(Tail(evs), j)

\* a coroutine has written a status of job j and has yet to broadcast it
AnnouncePending(j) ==
    \E t \in Tasks :
        /\ tasks[t].job = j
        /\ tasks[t].pc \in {"running_emit", "failed_emit", "succeeded_emit", "cancel_emit"}

\* C32: every change of a job's stored status (to running, succeeded, failed
\* or canceled) is announced by a job_updated event carrying the new status,
\* also a whole-job failure recorded by the background task when an error
\* escapes the worker: once the coroutine that wrote the status is past its
\* broadcast, the last job_updated event of the job carries the stored status.
C32_StatusChangeAnnounced ==
    \A j \in JobIds :
        (jobs[j].status # "queued" /\ ~AnnouncePending(j)) =>
            LET evs == StatusEvents(published, j) IN
            evs # <<>> /\ evs[Len(evs)] = jobs[j].status

\* the events the worker of job j published, in order: its job_updated events
\* (running, succeeded, failed) and its image_created events
RECURSIVE WorkerEvents(_, _)
WorkerEvents(evs, j) ==
    IF evs = <<>> THEN <<>>
    ELSE (IF Head(evs).job_id = j
             /\ (Head(evs).type = "image_created"
                 \/ (Head(evs).type = "job_updated" /\ Head(evs).status # "canceled"))
          THEN <<Head(evs)>> ELSE <<>>) \o WorkerEvents(Tail(evs), j)

\* the worker of job j has issued a provider call
HasCalled(j) ==
    \E t \in Tasks :
        /\ IsWorkerOf(t, j)
        /\ tasks[t].pc \in {"call", "backoff", "refresh", "sleep", "succeeded_emit",
                            "zip_images", "zip_write", "invalidate"}
        /\ tasks[t].prompts # <<>>

\* C33: for one job with a non-empty credential the events of its worker are
\* ordered: job_updated(running) comes before the first provider call and
\* before every image_created of the job, the image_created events carry
\* progress markers i/N with i strictly increasing, and
\* job_updated(succeeded) comes after the last image_created of the job.
C33_WorkerEventsOrdered ==
    \A j \in JobIds :
        HasCredential(j) =>
            LET evs == WorkerEvents(published, j) IN
            /\ HasCalled(j) => evs # <<>>
            /\ evs # <<>> => (evs[1].type = "job_updated" /\ evs[1].status = "running")
            /\ \A a, b \in DOMAIN evs :
                  (a < b /\ evs[a].type = "image_created" /\ evs[b].type = "image_created")
                      => evs[a].progress[1] < evs[b].progress[1]
            /\ \A a, b \in DOMAIN evs :
                  (evs[a].type = "job_updated" /\ evs[a].status = "succeeded"
                   /\ evs[b].type = "image_created") => b < a

\* a job of two prompts has run to the end: running, 1/2, 2/2, succeeded
C33_Witness ==
    \E j \in JobIds :
        /\ HasCredential(j)
        /\ LET evs == WorkerEvents(published, j) IN
           /\ Len(evs) = 4
           /\ evs[1].type = "job_updated" /\ evs[1].status = "running"
           /\ evs[2].type = "image_created" /\ evs[2].progress = <<1, 2>>
           /\ evs[3].type = "image_created" /\ evs[3].progress = <<2, 2>>
           /\ evs[4].type = "job_updated" /\ evs[4].status = "succeeded"

\* the prompts file records promoted from queue entry e
PromotedFrom(e) == {k \in DOMAIN prompts_files : prompts_files[k].queue_id = e}

\* C34: under any interleaving of two or more concurrent promotions, each
\* queue entry is promoted at most once: at most one prompts file record is
\* ever created for a given queue entry.
C34_PromotedAtMostOnce ==
    \A e \in {prompt_queue[k].id : k \in DOMAIN prompt_queue} :
        Cardinality(PromotedFrom(e)) <= 1

\* C35: a queue entry is deleted only while its status is pending: a removal
\* of a completed entry does not delete it, so completed is terminal and a
\* completed entry keeps its reference to the prompts file it produced.
C35_DeletedOnlyWhilePending ==
    [][\A k \in DOMAIN prompt_queue :
          prompt_queue[k].status # "pending" =>
              \E m \in DOMAIN prompt_queue' : prompt_queue'[m] = prompt_queue[k]]_vars

\* a prompts file record is added in this step
AddsPromptsFile == Len(prompts_files') = Len(prompts_files) + 1

\* C36: any two distinct promotions and uploads write to distinct destination
\* paths in the prompts directory, also when they copy sources with the same
\* filename within the same clock second: no prompts file's file is
\* overwritten by a later promotion and no two prompts file records share a
\* path.
C36_DistinctDestinations ==
    /\ [](\A k, m \in DOMAIN prompts_files :
             k # m => prompts_files[k].path # prompts_files[m].path)
    /\ [][AddsPromptsFile =>
             prompts_files'[Len(prompts_files')].path \notin DOMAIN prompts_dir]_vars

\* the get-or-build request of the task decides in this step to serve the
\* archive found on disk
ServesBuilt(t) ==
    /\ tasks[t].op = "download_all_zip" /\ tasks[t].pc = "all_check"
    /\ tasks'[t].seen = "cached"

Terminal(status) == status \in {"succeeded", "failed", "canceled"}

\* C39: every job created by create_job eventually leaves queued and reaches
\* a terminal status (succeeded, failed or canceled), the background task
\* being scheduled fairly and every provider call and sleep returning, also
\* when the job's prompts file record or its file is missing when the task
\* starts.
C39_EveryJobTerminates ==
    \A j \in 1..MaxJobs :
        JobExists(j) ~> (JobExists(j) /\ Terminal(jobs[j].status))

\* C40: when two enqueue calls for the same generated file interleave, both
\* making the existence check before either inserts, still at most one queue
\* entry referencing that file exists afterwards.
C40_ConcurrentEnqueueNoDuplicate ==
    \A g \in 1..MaxGenerated : Cardinality(EntriesOf(g)) <= 1

=============================================================================
